---- MODULE Spec2Model ----
(***************************************************************************)
(* netmon: the concurrent collection / aggregation / supervision pipeline. *)
(*                                                                         *)
(*   BufSpec  TrafficBuffer (collector.py) under concurrent add and flush,  *)
(*            one step per bytecode-level access of the shared map.         *)
(*   Spec     run_daemon (daemon.py): the supervisory loop, the sampling    *)
(*            process, the Reader, Writer and Webhook worker threads and    *)
(*            the shutdown path; threads interleave freely (no timing).     *)
(*   FairSpec Spec with weak fairness of the supervisor's own steps.        *)
(*   DataSpec run_daemon with samples flowing from the Reader to the store. *)
(*   PidSpec  concurrent `netmon start` / `netmon stop` commands (cli.py)   *)
(*            and daemons around the liveness marker (DaemonManager).       *)
(*   ReadSpec Spec with a sampling process whose output ends before it      *)
(*            is reported exited.                                            *)
(*   StopSpec ReadSpec with NethogsCollector.stop() called repeatedly and    *)
(*            on a collector that was never started.                         *)
(*   HookSpec the loop of _webhook_worker with send_webhook and the clock.  *)
(*   SendSpec one call of WebhookSender.send (webhook.py).                  *)
(*   SaveSpec one call of save_traffic on a flushed batch (database.py).    *)
(***************************************************************************)
EXTENDS Integers, Sequences, FiniteSets, TLC

None == "none"

\* the liveness marker does not exist
NoPid == 0
\* the liveness marker holds text that int() rejects (an empty file included)
Garbled == -1

\* ---------------------------------------------------------------- bounds
\* total number of add() calls issued in a behaviour of BufSpec
MaxAdds == 2
\* total number of flush() calls issued in a behaviour of BufSpec
MaxFlushes == 2

\* number of times the sampling process dies by itself in a behaviour of Spec
MaxProcDeaths == 1
\* number of unexpected deaths of the Writer / Webhook worker threads
MaxCrashes == 1
\* number of exceptions raised inside supervisor ticks
MaxFaults == 1
\* number of output lines the Reader threads take from the sampling process
MaxLines == 2
\* number of admin changes of the stored excluded-IP list
MaxAdminOps == 1

\* number of processes running a netmon command in a behaviour of PidSpec
NumCmds == 3

\* largest sent / recv total of a flushed entry handed to save_traffic
MaxBytes == 3

\* number of times stop() is called again after it has returned
MaxStopCalls == 2

\* WebhookSender.__init__: max_retries: int = 3
DefaultMaxRetries == 3

\* the wall clock (minutes) up to which the Webhook worker is followed
MaxTime == 35

\* number of log_webhook_result calls followed beyond the capacity of the log
MaxOverflow == 2
\* number of webhook_logs rows inserted within the second of an earlier row
MaxSameSecond == 1

\* how far around each threshold of send_webhook the intervals are taken
Spread == 5

\* number of traffic rows stored when cleanup_old_data is called
MaxRows == 3
\* the day (counted from the oldest row) on which cleanup_old_data is called
MaxDays == 3

\* the clock of the Writer counts quarters of a day
QuartersPerDay == 4
\* number of quarters of a day the Writer is followed after its start
MaxTicks == 9

\* save_traffic: the largest total (bytes) and the largest number of IPs of a split entry
MaxSplitBytes == 4
MaxSplitIps == 3
\* the float totals are followed in quarters of a byte
QuartersPerByte == 4

\* log_webhook_result: ORDER BY timestamp DESC LIMIT 100
LogCap == 100

\* send_webhook: the largest interval (minutes) reported as hourly, daily, weekly
HourlyMax == 60
DailyMax == 1440
WeeklyMax == 10080

\* NethogsCollector.stop: self._process.wait(timeout=5)
GraceSeconds == 5

\* threads calling TrafficBuffer.add, and the one calling flush
Adders == {"t1", "t2"}
Flusher == "w"
Apps == {"a", "b"}
IPs == {"ip1"}
SentVals == {1, 2}
RecvVals == {4}

VARIABLES
    buf_data,   \* TrafficBuffer._data: app -> [sent, recv, ips] (+ history fields)
    buf_lock,   \* TrafficBuffer._lock: None or the thread holding it
    add_pc,     \* per adder thread: position inside add()
    add_arg,    \* per adder thread: the arguments of the running add()
    add_tmp,    \* per adder thread: the value loaded by the running +=
    fl_pc,      \* position of the flusher inside flush()
    fl_copy,    \* flush(): the local `data`
    flushes,    \* history: the results flush() returned, in order
    adds,       \* history: the arguments of every add() call, by call number
    main_pc,        \* run_daemon: position of the main thread
    kill_now,       \* GracefulKiller.kill_now
    shutdown_event, \* NethogsCollector.shutdown_event
    pid_file,       \* the liveness marker: None or the pid written in it
    process,        \* NethogsCollector._process: None, "running", "eof" (running,
                    \* its output closed) or "exited"
    readers,        \* every Reader thread started, in start order: [pc, sample];
                    \* NethogsCollector._reader_thread is the last one
    writer_pc,      \* the thread NethogsCollector._writer_thread, inside _writer_loop
    writer_data,    \* _writer_loop: the local data / final_data
    writer_starts,  \* history: number of Writer threads started
    webhook_pc,     \* the thread webhook_thread of run_daemon
    webhook_starts, \* history: number of Webhook worker threads started
    excluded_ips,   \* NethogsCollector._excluded_ips
    db_excluded,    \* the excluded_ips table of the store
    handed,         \* history: call numbers of the adds passed to save_traffic
    env,            \* history: how many deaths, crashes, faults, lines, admin ops so far
    tick,           \* history: what the current supervisor tick found and did
    cmd_pc,         \* per command process: position in cli.start / run_daemon / cli.stop
    cmd_target,     \* per stop command: the pid read by DaemonManager.stop
    cmd_kill,       \* per daemon process: its GracefulKiller.kill_now
    save_pc,        \* save_traffic: position of the call
    save_data,      \* save_traffic: the traffic_data argument (app -> entry)
    save_todo,      \* save_traffic: the apps the loop has still to visit, in dict order
    save_tx,        \* save_traffic: rows inserted in the open transaction
    db_traffic,     \* the committed rows of the traffic table
    stop_seen,      \* history: <<shutdown_event, process>> at each return of stop()
    send_pc,        \* WebhookSender.send: position of the call
    send_max,       \* WebhookSender.max_retries
    send_attempt,   \* WebhookSender.send: the loop variable attempt
    send_log,       \* history: the POST attempts (with their outcome) and sleeps, in order
    send_result,    \* WebhookSender.send: the value returned
    hook_pc,        \* _webhook_worker: position in the loop
    hook_now,       \* the wall clock, in minutes
    hook_cfg,       \* the webhook_config row: [exists, enabled, url, interval, last_sent]
    hook_log,       \* the webhook_logs table, oldest row first
    hook_sent       \* history: [t, ok] of every call of WebhookSender.send that returned

bufVars == <<buf_data, buf_lock, add_pc, add_arg, add_tmp, fl_pc, fl_copy, flushes, adds>>

daemonVars == <<main_pc, kill_now, shutdown_event, pid_file, process, readers, writer_pc,
                writer_data, writer_starts, webhook_pc, webhook_starts, excluded_ips,
                db_excluded, handed, env, tick>>

cliVars == <<cmd_pc, cmd_target, cmd_kill>>

saveVars == <<save_pc, save_data, save_todo, save_tx, db_traffic>>

stopVars == <<stop_seen>>

sendVars == <<send_pc, send_max, send_attempt, send_log, send_result>>

hookVars == <<hook_pc, hook_now, hook_cfg, hook_log, hook_sent>>

VARIABLES
    log_rows,       \* the webhook_logs table: rows [id, ts], ts in whole seconds
    log_clock,      \* CURRENT_TIMESTAMP of the store, in whole seconds
    log_appended,   \* the AUTOINCREMENT counter of webhook_logs: rows inserted so far
    log_ties,       \* history: how many rows were inserted in the second of an earlier one
    per_pc,         \* send_webhook: position between reading the interval and sending
    per_interval,   \* webhook_config.interval_minutes
    per_period,     \* send_webhook: the local variable period
    per_payload,    \* the payload built: [report_period, hours]
    clean_pc,       \* cleanup_old_data: position of the call
    clean_rows,     \* the committed rows of the traffic table: [id, ts], ts in days
    clean_tx,       \* cleanup_old_data: rows deleted in the open transaction
    clean_now,      \* datetime.utcnow(), in days
    clean_keep,     \* config.data_retention_days
    clean_before,   \* history: the committed rows when cleanup_old_data was called
    day_pc,         \* _writer_loop: position in the loop, as far as the cleanup goes
    day_now,        \* datetime.now(), in quarters of a day
    day_last,       \* _writer_loop: the local variable last_cleanup
    day_start,      \* history: the time at which the Writer started
    day_log,        \* history: the times at which cleanup_old_data was called
    save_lost,      \* history: call numbers of the adds in batches on which save_traffic raised
    parse_pc,       \* parse_nethogs_line: position of the call
    parse_in,       \* history: the line read and what it was written from: [line, shape, name, remote]
    parse_line,     \* parse_nethogs_line: the local variable line, a sequence of characters
    parse_parts,    \* parse_nethogs_line: the local variable parts
    parse_num,      \* parse_nethogs_line: the local variables sent and recv
    parse_out,      \* the tuple returned: [app, ip, sent, recv]
    valid_pc,       \* validate_app_name: position of the call
    valid_in,       \* the argument app_name, a sequence of characters
    valid_out,      \* the name returned
    status_pc,      \* WebhookSender.send: position of the call
    status_max,     \* WebhookSender.max_retries
    status_attempt, \* WebhookSender.send: the loop variable attempt
    status_answers, \* history: what the endpoint answered to each POST, in order
    status_result,  \* WebhookSender.send: the value returned
    split_pc,       \* save_traffic: position in the branch `if ips`
    split_sent,     \* data['sent'], a float, in quarters of a byte
    split_recv,     \* data['recv'], a float, in quarters of a byte
    split_n,        \* save_traffic: the local variable num_ips
    split_base,     \* save_traffic: the local variables base_sent, base_recv
    split_rem,      \* save_traffic: the local variables remainder_sent, remainder_recv
    split_rows,     \* the rows inserted for the entry, in the order of enumerate(ips)
    term_pc,        \* NethogsCollector.stop: position of the call
    term_proc,      \* the sampling process of self._process: "none", "running" or "exited"
    term_waited,    \* seconds spent in self._process.wait(timeout=5)
    term_calls,     \* history: calls of stop() so far
    term_sent,      \* history: the signals sent: [sig, call, alive, waited]
    sig_at          \* history: the position of the supervisor when the termination request arrived

logVars == <<log_rows, log_clock, log_appended, log_ties>>

periodVars == <<per_pc, per_interval, per_period, per_payload>>

cleanVars == <<clean_pc, clean_rows, clean_tx, clean_now, clean_keep, clean_before>>

dayVars == <<day_pc, day_now, day_last, day_start, day_log>>

failVars == <<save_lost>>

parseVars == <<parse_pc, parse_in, parse_line, parse_parts, parse_num, parse_out>>

validVars == <<valid_pc, valid_in, valid_out>>

statusVars == <<status_pc, status_max, status_attempt, status_answers, status_result>>

splitVars == <<split_pc, split_sent, split_recv, split_n, split_base, split_rem, split_rows>>

termVars == <<term_pc, term_proc, term_waited, term_calls, term_sent>>

sigVars == <<sig_at>>

\* the state of the functions followed on their own
fnVars == <<logVars, periodVars, cleanVars, dayVars, failVars, parseVars, validVars, statusVars, splitVars, termVars, sigVars>>

\* the state of the collector, the daemon, the commands and the webhook
coreVars == <<bufVars, daemonVars, cliVars, saveVars, stopVars, sendVars, hookVars>>

\* what a call of log_webhook_result leaves unchanged
exceptLog == <<coreVars, periodVars, cleanVars, dayVars, failVars, parseVars, validVars, statusVars, splitVars, termVars, sigVars>>

\* what the period resolution of send_webhook leaves unchanged
exceptPeriod == <<coreVars, logVars, cleanVars, dayVars, failVars, parseVars, validVars, statusVars, splitVars, termVars, sigVars>>

\* what a call of cleanup_old_data leaves unchanged
exceptClean == <<coreVars, logVars, periodVars, dayVars, failVars, parseVars, validVars, statusVars, splitVars, termVars, sigVars>>

\* what the daily cleanup of _writer_loop leaves unchanged
exceptDay == <<coreVars, logVars, periodVars, cleanVars, failVars, parseVars, validVars, statusVars, splitVars, termVars, sigVars>>

\* what a failing save_traffic call of the Writer leaves unchanged
exceptFail == <<coreVars, logVars, periodVars, cleanVars, dayVars, parseVars, validVars, statusVars, splitVars, termVars, sigVars>>

\* the function-level state that a failing save_traffic call of the Writer leaves unchanged
fnExceptFail == <<saveVars, stopVars, sendVars, hookVars, logVars, periodVars, cleanVars, dayVars, parseVars, validVars, statusVars, splitVars, termVars, sigVars>>

\* what a call of parse_nethogs_line leaves unchanged
exceptParse == <<coreVars, logVars, periodVars, cleanVars, dayVars, failVars, validVars, statusVars, splitVars, termVars, sigVars>>

\* what a call of validate_app_name leaves unchanged
exceptValid == <<coreVars, logVars, periodVars, cleanVars, dayVars, failVars, parseVars, statusVars, splitVars, termVars, sigVars>>

\* what a call of WebhookSender.send followed with the answers of the endpoint leaves unchanged
exceptStatus == <<coreVars, logVars, periodVars, cleanVars, dayVars, failVars, parseVars, validVars, splitVars, termVars, sigVars>>

\* what the split of one entry over its IPs in save_traffic leaves unchanged
exceptSplit == <<coreVars, logVars, periodVars, cleanVars, dayVars, failVars, parseVars, validVars, statusVars, termVars, sigVars>>

\* what a call of NethogsCollector.stop followed signal by signal leaves unchanged
exceptTerm == <<coreVars, logVars, periodVars, cleanVars, dayVars, failVars, parseVars, validVars, statusVars, splitVars, sigVars>>

\* what the arrival of the termination request leaves unchanged
exceptSig == <<coreVars, logVars, periodVars, cleanVars, dayVars, failVars, parseVars, validVars, statusVars, splitVars, termVars>>

\* the function-level state that the arrival of the termination request leaves unchanged
fnExceptSig == <<saveVars, stopVars, sendVars, hookVars, logVars, periodVars, cleanVars, dayVars, failVars, parseVars, validVars, statusVars, splitVars, termVars>>

auxVars == <<saveVars, stopVars, sendVars, hookVars, fnVars>>

\* what a step of save_traffic, of WebhookSender.send leaves unchanged
exceptSave == <<bufVars, daemonVars, cliVars, stopVars, sendVars, hookVars, fnVars>>

exceptSend == <<bufVars, daemonVars, cliVars, saveVars, stopVars, fnVars>>

exceptHook == <<bufVars, daemonVars, cliVars, saveVars, stopVars, fnVars>>

vars == <<bufVars, daemonVars, cliVars, auxVars>>

\* ------------------------------------------------------------ helpers
EmptyMap == [x \in {} |-> 0]

Put(f, k, v) == [x \in (DOMAIN f) \cup {k} |-> IF x = k THEN v ELSE f[x]]

\* sum of the sent (recv) arguments of the add() calls numbered in S
RECURSIVE SumSent(_)
SumSent(S) ==
    IF S = {} THEN 0
    ELSE LET x == CHOOSE y \in S : TRUE IN adds[x].sent + SumSent(S \ {x})

RECURSIVE SumRecv(_)
SumRecv(S) ==
    IF S = {} THEN 0
    ELSE LET x == CHOOSE y \in S : TRUE IN adds[x].recv + SumRecv(S \ {x})

\* nothing recorded about a tick
NoTick == [pd |-> FALSE, rd |-> -1, wd |-> -1, hd |-> -1, log |-> <<>>, raised |-> None]

\* a fresh NethogsCollector and no worker, the main thread at position pc
DaemonIdleAt(pc) ==
    /\ main_pc = pc
    /\ kill_now = FALSE
    /\ shutdown_event = FALSE
    /\ pid_file = NoPid
    /\ process = None
    /\ readers = <<>>
    /\ writer_pc = "unstarted"
    /\ writer_data = EmptyMap
    /\ writer_starts = 0
    /\ webhook_pc = "unstarted"
    /\ webhook_starts = 0
    /\ excluded_ips = {}
    /\ handed = {}
    /\ env = [deaths |-> 0, crashes |-> 0, faults |-> 0, lines |-> 0, admin |-> 0]
    /\ tick = NoTick
    /\ stop_seen = <<>>

\* the daemon before run_daemon is entered
DaemonIdle == DaemonIdleAt("write_pid")

\* the command processes: each runs one netmon command; its number is its pid
Procs == 1..NumCmds

CliIdle ==
    /\ cmd_pc = [p \in Procs |-> "idle"]
    /\ cmd_target = [p \in Procs |-> NoPid]
    /\ cmd_kill = [p \in Procs |-> FALSE]

\* ------------------------------------------------- TrafficBuffer (collector.py)
\* defaultdict(lambda: {'sent': 0, 'recv': 0, 'ips': set()}); hs/hr/hi are history
\* fields: the call numbers of the adds whose sent / recv / ip the entry holds.
DefaultEntry == [sent |-> 0, recv |-> 0, ips |-> {}, hs |-> {}, hr |-> {}, hi |-> {}]

\* self._data[app]: a missing key is created with the default entry
GetOrCreate(data, app) == IF app \in DOMAIN data THEN data ELSE Put(data, app, DefaultEntry)

\* `with self._lock:` blocks until no thread holds the lock
LockFree_NoExclusion(t) == TRUE
LockFree(t) == buf_lock = None

\* add() is called: the arguments are bound, the thread goes for the lock
AddCall(t, app, sent, recv, ip) ==
    /\ add_pc[t] = "idle"
    /\ Len(adds) < MaxAdds
    /\ adds' = Append(adds, [app |-> app, sent |-> sent, recv |-> recv, ip |-> ip])
    /\ add_arg' = [add_arg EXCEPT ![t] = Len(adds) + 1]
    /\ add_pc' = [add_pc EXCEPT ![t] = "lock"]
    /\ UNCHANGED <<buf_data, buf_lock, add_tmp, fl_pc, fl_copy, flushes>>
    /\ UNCHANGED <<daemonVars, cliVars, auxVars>>

AddLock(t) ==
    /\ add_pc[t] = "lock"
    /\ LockFree(t)
    /\ buf_lock' = t
    /\ add_pc' = [add_pc EXCEPT ![t] = "sent_ld"]
    /\ UNCHANGED <<buf_data, add_arg, add_tmp, fl_pc, fl_copy, flushes, adds>>
    /\ UNCHANGED <<daemonVars, cliVars, auxVars>>

\* self._data[app]['sent'] += sent, the load half
AddSentLoad(t) ==
    /\ add_pc[t] = "sent_ld"
    /\ LET a == adds[add_arg[t]].app
           d == GetOrCreate(buf_data, a)
       IN /\ buf_data' = d
          /\ add_tmp' = [add_tmp EXCEPT ![t] = [v |-> d[a].sent, h |-> d[a].hs]]
    /\ add_pc' = [add_pc EXCEPT ![t] = "sent_st"]
    /\ UNCHANGED <<buf_lock, add_arg, fl_pc, fl_copy, flushes, adds>>
    /\ UNCHANGED <<daemonVars, cliVars, auxVars>>

\* ... and the store half
AddSentStore(t) ==
    /\ add_pc[t] = "sent_st"
    /\ LET i == add_arg[t]
           a == adds[i].app
           d == GetOrCreate(buf_data, a)
       IN buf_data' = [d EXCEPT ![a].sent = add_tmp[t].v + adds[i].sent,
                                ![a].hs = add_tmp[t].h \cup {i}]
    /\ add_pc' = [add_pc EXCEPT ![t] = "recv_ld"]
    /\ UNCHANGED <<buf_lock, add_arg, add_tmp, fl_pc, fl_copy, flushes, adds>>
    /\ UNCHANGED <<daemonVars, cliVars, auxVars>>

\* self._data[app]['recv'] += recv
AddRecvLoad(t) ==
    /\ add_pc[t] = "recv_ld"
    /\ LET a == adds[add_arg[t]].app
           d == GetOrCreate(buf_data, a)
       IN /\ buf_data' = d
          /\ add_tmp' = [add_tmp EXCEPT ![t] = [v |-> d[a].recv, h |-> d[a].hr]]
    /\ add_pc' = [add_pc EXCEPT ![t] = "recv_st"]
    /\ UNCHANGED <<buf_lock, add_arg, fl_pc, fl_copy, flushes, adds>>
    /\ UNCHANGED <<daemonVars, cliVars, auxVars>>

AddRecvStore(t) ==
    /\ add_pc[t] = "recv_st"
    /\ LET i == add_arg[t]
           a == adds[i].app
           d == GetOrCreate(buf_data, a)
       IN buf_data' = [d EXCEPT ![a].recv = add_tmp[t].v + adds[i].recv,
                                ![a].hr = add_tmp[t].h \cup {i}]
    /\ add_pc' = [add_pc EXCEPT ![t] = "ip"]
    /\ UNCHANGED <<buf_lock, add_arg, add_tmp, fl_pc, fl_copy, flushes, adds>>
    /\ UNCHANGED <<daemonVars, cliVars, auxVars>>

\* if ip: self._data[app]['ips'].add(ip)
AddIp(t) ==
    /\ add_pc[t] = "ip"
    /\ LET i == add_arg[t]
           a == adds[i].app
           d == GetOrCreate(buf_data, a)
       IN buf_data' = IF adds[i].ip # None
                      THEN [d EXCEPT ![a].ips = @ \cup {adds[i].ip}, ![a].hi = @ \cup {i}]
                      ELSE buf_data
    /\ add_pc' = [add_pc EXCEPT ![t] = "unlock"]
    /\ UNCHANGED <<buf_lock, add_arg, add_tmp, fl_pc, fl_copy, flushes, adds>>
    /\ UNCHANGED <<daemonVars, cliVars, auxVars>>

\* leaving the with block releases the lock; add() returns
AddUnlock(t) ==
    /\ add_pc[t] = "unlock"
    /\ buf_lock' = None
    /\ add_pc' = [add_pc EXCEPT ![t] = "idle"]
    /\ add_arg' = [add_arg EXCEPT ![t] = 0]
    /\ add_tmp' = [add_tmp EXCEPT ![t] = None]
    /\ UNCHANGED <<buf_data, fl_pc, fl_copy, flushes, adds>>
    /\ UNCHANGED <<daemonVars, cliVars, auxVars>>

FlushCall ==
    /\ fl_pc = "idle"
    /\ Len(flushes) < MaxFlushes
    /\ fl_pc' = "lock"
    /\ UNCHANGED <<buf_data, buf_lock, add_pc, add_arg, add_tmp, fl_copy, flushes, adds>>
    /\ UNCHANGED <<daemonVars, cliVars, auxVars>>

FlushLock ==
    /\ fl_pc = "lock"
    /\ LockFree(Flusher)
    /\ buf_lock' = Flusher
    /\ fl_pc' = "copy"
    /\ UNCHANGED <<buf_data, add_pc, add_arg, add_tmp, fl_copy, flushes, adds>>
    /\ UNCHANGED <<daemonVars, cliVars, auxVars>>

\* data = dict(self._data)
FlushCopy ==
    /\ fl_pc = "copy"
    /\ fl_copy' = buf_data
    /\ fl_pc' = "clear"
    /\ UNCHANGED <<buf_data, buf_lock, add_pc, add_arg, add_tmp, flushes, adds>>
    /\ UNCHANGED <<daemonVars, cliVars, auxVars>>

FlushClear_KeepsData ==
    /\ fl_pc = "clear"
    /\ fl_pc' = "ret"
    /\ UNCHANGED <<buf_data, buf_lock, add_pc, add_arg, add_tmp, fl_copy, flushes, adds>>
    /\ UNCHANGED <<daemonVars, cliVars, auxVars>>

\* self._data.clear()
FlushClear ==
    /\ fl_pc = "clear"
    /\ buf_data' = EmptyMap
    /\ fl_pc' = "ret"
    /\ UNCHANGED <<buf_lock, add_pc, add_arg, add_tmp, fl_copy, flushes, adds>>
    /\ UNCHANGED <<daemonVars, cliVars, auxVars>>

\* return data (leaving the with block releases the lock)
FlushReturn ==
    /\ fl_pc = "ret"
    /\ buf_lock' = None
    /\ flushes' = Append(flushes, fl_copy)
    /\ fl_copy' = EmptyMap
    /\ fl_pc' = "idle"
    /\ UNCHANGED <<buf_data, add_pc, add_arg, add_tmp, adds>>
    /\ UNCHANGED <<daemonVars, cliVars, auxVars>>

\* save_traffic not called, the traffic table empty
SaveIdle ==
    /\ save_pc = "idle"
    /\ save_data = EmptyMap
    /\ save_todo = <<>>
    /\ save_tx = <<>>
    /\ db_traffic = <<>>

\* WebhookSender.send not called
SendIdle ==
    /\ send_pc = "idle"
    /\ send_max = DefaultMaxRetries
    /\ send_attempt = 0
    /\ send_log = <<>>
    /\ send_result = None

\* the last_sent column is NULL
NoTime == -1

\* the Webhook worker not running, no webhook_config row, no log
HookIdle ==
    /\ hook_pc = "idle"
    /\ hook_now = 0
    /\ hook_cfg = [exists |-> FALSE, enabled |-> FALSE, url |-> FALSE, interval |-> 60,
                   last_sent |-> NoTime]
    /\ hook_log = <<>>
    /\ hook_sent = <<>>

BufIdle ==
    /\ buf_data = EmptyMap
    /\ buf_lock = None
    /\ add_pc = [t \in Adders |-> "idle"]
    /\ add_arg = [t \in Adders |-> 0]
    /\ add_tmp = [t \in Adders |-> None]
    /\ fl_pc = "idle"
    /\ fl_copy = EmptyMap
    /\ flushes = <<>>
    /\ adds = <<>>

\* a number of bytes n / d (float(field) * 1024 need not be whole)
Zero == [n |-> 0, d |-> 1]

\* (None, None, 0, 0), the result for a skipped line: None is the empty sequence
SkipResult == [app |-> <<>>, ip |-> <<>>, sent |-> Zero, recv |-> Zero]

\* no line read
NoInput == [line |-> <<>>, shape |-> "none", name |-> <<>>, remote |-> <<>>]

\* everything outside the function-level specifications in its initial state
RestIdle ==
    /\ BufIdle
    /\ DaemonIdle
    /\ db_excluded = {}
    /\ CliIdle

\* the collector, the daemon, the commands and the webhook in their initial state
CoreIdle == RestIdle /\ SaveIdle /\ SendIdle /\ HookIdle

\* an empty webhook_logs table
LogIdle ==
    /\ log_rows = {}
    /\ log_clock = 0
    /\ log_appended = 0
    /\ log_ties = 0

\* send_webhook not called
PeriodIdle ==
    /\ per_pc = "idle"
    /\ per_interval = HourlyMax
    /\ per_period = None
    /\ per_payload = [report_period |-> None, hours |-> 0]

\* cleanup_old_data not called, an empty traffic table
CleanIdle ==
    /\ clean_pc = "idle"
    /\ clean_rows = {}
    /\ clean_tx = {}
    /\ clean_now = 0
    /\ clean_keep = 1
    /\ clean_before = {}

\* the Writer not started
DayIdle ==
    /\ day_pc = "idle"
    /\ day_now = 0
    /\ day_last = 0
    /\ day_start = 0
    /\ day_log = <<>>

\* no save_traffic call of the Writer has failed
FailIdle ==
    /\ save_lost = {}

\* parse_nethogs_line not called
ParseIdle ==
    /\ parse_pc = "idle"
    /\ parse_in = NoInput
    /\ parse_line = <<>>
    /\ parse_parts = <<>>
    /\ parse_num = <<Zero, Zero>>
    /\ parse_out = SkipResult

\* validate_app_name not called
ValidIdle ==
    /\ valid_pc = "idle"
    /\ valid_in = <<>>
    /\ valid_out = <<>>

\* WebhookSender.send not called
StatusIdle ==
    /\ status_pc = "idle"
    /\ status_max = DefaultMaxRetries
    /\ status_attempt = 0
    /\ status_answers = <<>>
    /\ status_result = None

\* save_traffic not at an entry with IPs
SplitIdle ==
    /\ split_pc = "idle"
    /\ split_sent = 0
    /\ split_recv = 0
    /\ split_n = 1
    /\ split_base = [sent |-> 0, recv |-> 0]
    /\ split_rem = [sent |-> 0, recv |-> 0]
    /\ split_rows = <<>>

\* stop() not called, no sampling process
TermIdle ==
    /\ term_pc = "idle"
    /\ term_proc = "none"
    /\ term_waited = 0
    /\ term_calls = 0
    /\ term_sent = <<>>

\* no termination request has arrived
SigIdle ==
    /\ sig_at = None

FnIdle == LogIdle /\ PeriodIdle /\ CleanIdle /\ DayIdle /\ FailIdle /\ ParseIdle /\ ValidIdle /\ StatusIdle /\ SplitIdle /\ TermIdle /\ SigIdle

\* everything but the state of a call of log_webhook_result in its initial state
BesideLog == CoreIdle /\ PeriodIdle /\ CleanIdle /\ DayIdle /\ FailIdle /\ ParseIdle /\ ValidIdle /\ StatusIdle /\ SplitIdle /\ TermIdle /\ SigIdle

\* everything but the state of the period resolution of send_webhook in its initial state
BesidePeriod == CoreIdle /\ LogIdle /\ CleanIdle /\ DayIdle /\ FailIdle /\ ParseIdle /\ ValidIdle /\ StatusIdle /\ SplitIdle /\ TermIdle /\ SigIdle

\* everything but the state of a call of cleanup_old_data in its initial state
BesideClean == CoreIdle /\ LogIdle /\ PeriodIdle /\ DayIdle /\ FailIdle /\ ParseIdle /\ ValidIdle /\ StatusIdle /\ SplitIdle /\ TermIdle /\ SigIdle

\* everything but the state of the daily cleanup of _writer_loop in its initial state
BesideDay == CoreIdle /\ LogIdle /\ PeriodIdle /\ CleanIdle /\ FailIdle /\ ParseIdle /\ ValidIdle /\ StatusIdle /\ SplitIdle /\ TermIdle /\ SigIdle

\* everything but the state of a failing save_traffic call of the Writer in its initial state
BesideFail == CoreIdle /\ LogIdle /\ PeriodIdle /\ CleanIdle /\ DayIdle /\ ParseIdle /\ ValidIdle /\ StatusIdle /\ SplitIdle /\ TermIdle /\ SigIdle

\* everything but the state of a call of parse_nethogs_line in its initial state
BesideParse == CoreIdle /\ LogIdle /\ PeriodIdle /\ CleanIdle /\ DayIdle /\ FailIdle /\ ValidIdle /\ StatusIdle /\ SplitIdle /\ TermIdle /\ SigIdle

\* everything but the state of a call of validate_app_name in its initial state
BesideValid == CoreIdle /\ LogIdle /\ PeriodIdle /\ CleanIdle /\ DayIdle /\ FailIdle /\ ParseIdle /\ StatusIdle /\ SplitIdle /\ TermIdle /\ SigIdle

\* everything but the state of a call of WebhookSender.send followed with the answers of the endpoint in its initial state
BesideStatus == CoreIdle /\ LogIdle /\ PeriodIdle /\ CleanIdle /\ DayIdle /\ FailIdle /\ ParseIdle /\ ValidIdle /\ SplitIdle /\ TermIdle /\ SigIdle

\* everything but the state of the split of one entry over its IPs in save_traffic in its initial state
BesideSplit == CoreIdle /\ LogIdle /\ PeriodIdle /\ CleanIdle /\ DayIdle /\ FailIdle /\ ParseIdle /\ ValidIdle /\ StatusIdle /\ TermIdle /\ SigIdle

\* everything but the state of a call of NethogsCollector.stop followed signal by signal in its initial state
BesideTerm == CoreIdle /\ LogIdle /\ PeriodIdle /\ CleanIdle /\ DayIdle /\ FailIdle /\ ParseIdle /\ ValidIdle /\ StatusIdle /\ SplitIdle /\ SigIdle

\* everything but the state of the arrival of the termination request in its initial state
BesideSig == CoreIdle /\ LogIdle /\ PeriodIdle /\ CleanIdle /\ DayIdle /\ FailIdle /\ ParseIdle /\ ValidIdle /\ StatusIdle /\ SplitIdle /\ TermIdle

AuxIdle == SaveIdle /\ SendIdle /\ HookIdle /\ FnIdle

BufInit ==
    /\ RestIdle
    /\ AuxIdle

BufNext ==
    \/ \E t \in Adders, app \in Apps, sent \in SentVals, recv \in RecvVals, ip \in IPs \cup {None} :
          AddCall(t, app, sent, recv, ip)
    \/ \E t \in Adders : AddLock(t)
    \/ \E t \in Adders : AddSentLoad(t)
    \/ \E t \in Adders : AddSentStore(t)
    \/ \E t \in Adders : AddRecvLoad(t)
    \/ \E t \in Adders : AddRecvStore(t)
    \/ \E t \in Adders : AddIp(t)
    \/ \E t \in Adders : AddUnlock(t)
    \/ FlushCall
    \/ FlushLock
    \/ FlushCopy
    \/ FlushClear
    \/ FlushReturn

BufSpec == BufInit /\ [][BufNext]_vars

\* ------------------------------------------- NethogsCollector (collector.py)
\* the pid of the daemon process of Spec
DaemonPid == 1

\* what the Reader gets from parse_nethogs_line for the lines of the process
\* parse_nethogs_line's result for a skipped line: (None, None, 0, 0)
NoSample == [app |-> None, sent |-> 0, recv |-> 0, ip |-> None]

Samples == {[app |-> "a", sent |-> 1, recv |-> 4, ip |-> None],
            [app |-> "a", sent |-> 1, recv |-> 4, ip |-> "ip1"]}

bufOnlyVars == <<buf_lock, add_pc, add_arg, add_tmp, fl_pc, fl_copy, flushes>>

\* TrafficBuffer.add as one step: AddSentLoad .. AddIp, which the lock keeps together
BufferAdd(data, i, s) ==
    LET d == GetOrCreate(data, s.app) IN
    [d EXCEPT ![s.app] = [sent |-> @.sent + s.sent, hs |-> @.hs \cup {i},
                          recv |-> @.recv + s.recv, hr |-> @.hr \cup {i},
                          ips |-> IF s.ip # None THEN @.ips \cup {s.ip} ELSE @.ips,
                          hi |-> IF s.ip # None THEN @.hi \cup {i} ELSE @.hi]]

\* call numbers of the adds a map holds
IdsIn(m) == UNION {m[a].hs : a \in DOMAIN m}

IsReaderAlive_NoIsAliveCall == Len(readers) > 0
\* is_reader_alive(): _reader_thread is not None and _reader_thread.is_alive()
IsReaderAlive == Len(readers) > 0 /\ readers[Len(readers)].pc # "dead"

IsWriterAlive_Inverted == writer_pc \in {"unstarted", "dead"}
\* is_writer_alive()
IsWriterAlive == writer_pc \notin {"unstarted", "dead"}

\* webhook_thread.is_alive()
IsWebhookAlive == webhook_pc \notin {"unstarted", "dead"}

\* collector._process and collector._process.poll() is not None
\* self._process.poll() is None: the process has not been reported exited
PollIsNone == process \in {"running", "eof"}

ProcessDied == process = "exited"

\* start_reader_thread without the load of line 106
StartReaderThread_NoLoad ==
    /\ UNCHANGED excluded_ips
    /\ readers' = Append(readers, [pc |-> "top", sample |-> NoSample])

\* start_reader_thread(): load the excluded IPs, start a new Reader thread
StartReaderThread ==
    /\ excluded_ips' = db_excluded
    /\ readers' = Append(readers, [pc |-> "top", sample |-> NoSample])

\* start_writer_thread()
StartWriterThread ==
    /\ writer_pc' = "wait"
    /\ writer_data' = EmptyMap
    /\ writer_starts' = writer_starts + 1

\* Thread(target=_webhook_worker, ...).start()
StartWebhookThread ==
    /\ webhook_pc' = "run"
    /\ webhook_starts' = webhook_starts + 1

Note(what) == tick' = [tick EXCEPT !.log = Append(@, what)]

\* ------------------------------------------------------ run_daemon (daemon.py)
\* where control goes when a statement of the loop body raises: except Exception
ExceptionTarget_Propagates == "crashed"
ExceptionTarget == "except"

\* a statement inside the try block of the main loop raises
Raise ==
    /\ env.faults < MaxFaults
    /\ env' = [env EXCEPT !.faults = @ + 1]
    /\ main_pc' = ExceptionTarget
    /\ tick' = [tick EXCEPT !.raised = main_pc]
    /\ UNCHANGED <<kill_now, shutdown_event, pid_file, process, readers, writer_pc, writer_data,
                   writer_starts, webhook_pc, webhook_starts, excluded_ips, db_excluded,
                   handed>>

\* daemon_manager.write_pid() (start requires root: no PermissionError)
WritePid ==
    /\ main_pc = "write_pid"
    /\ pid_file' = DaemonPid
    /\ main_pc' = "start"
    /\ UNCHANGED <<kill_now, shutdown_event, process, readers, writer_pc, writer_data,
                   writer_starts, webhook_pc, webhook_starts, excluded_ips, db_excluded,
                   handed, env, tick>>
    /\ UNCHANGED <<bufVars, cliVars, auxVars>>

\* collector.start(), or FileNotFoundError and sys.exit(1)
StartNethogs ==
    /\ main_pc = "start"
    /\ \/ process' = "running" /\ main_pc' = "workers"
       \/ process' = process /\ main_pc' = "exit1"
    /\ UNCHANGED <<kill_now, shutdown_event, pid_file, readers, writer_pc, writer_data,
                   writer_starts, webhook_pc, webhook_starts, excluded_ips, db_excluded,
                   handed, env, tick>>
    /\ UNCHANGED <<bufVars, cliVars, auxVars>>

\* start_reader_thread(); start_writer_thread(); webhook_thread.start()
StartWorkers ==
    /\ main_pc = "workers"
    /\ StartReaderThread
    /\ StartWriterThread
    /\ StartWebhookThread
    /\ main_pc' = "loop"
    /\ UNCHANGED <<kill_now, shutdown_event, pid_file, process, db_excluded, handed, env, tick>>
    /\ UNCHANGED <<bufVars, cliVars, auxVars>>

\* while not killer.kill_now and not shutdown_event.is_set(): ... the process check
LoopTop ==
    /\ main_pc = "loop"
    /\ IF kill_now \/ shutdown_event
       THEN /\ main_pc' = "stop"
            /\ tick' = NoTick
       ELSE /\ main_pc' = IF ProcessDied THEN "sleep" ELSE "chk_reader"
            /\ tick' = [pd |-> ProcessDied,
                        rd |-> IF Len(readers) > 0 /\ readers[Len(readers)].pc = "dead"
                               THEN Len(readers) ELSE -1,
                        wd |-> IF writer_pc = "dead" THEN writer_starts ELSE -1,
                        hd |-> IF webhook_pc = "dead" THEN webhook_starts ELSE -1,
                        log |-> <<>>,
                        raised |-> None]
    /\ UNCHANGED <<kill_now, shutdown_event, pid_file, process, readers, writer_pc, writer_data,
                   writer_starts, webhook_pc, webhook_starts, excluded_ips, db_excluded,
                   handed, env>>
    /\ UNCHANGED <<bufVars, cliVars, auxVars>>

\* time.sleep(5)
Sleep5 ==
    /\ main_pc = "sleep"
    /\ main_pc' = "restart"
    /\ Note("wait")
    /\ UNCHANGED <<kill_now, shutdown_event, pid_file, process, readers, writer_pc, writer_data,
                   writer_starts, webhook_pc, webhook_starts, excluded_ips, db_excluded,
                   handed, env>>
    /\ UNCHANGED <<bufVars, cliVars, auxVars>>

RestartProcess_SkipsRefresh ==
    /\ main_pc = "restart"
    /\ process' = "running"
    /\ main_pc' = "reader"
    /\ Note("start")
    /\ UNCHANGED <<kill_now, shutdown_event, pid_file, readers, writer_pc, writer_data,
                   writer_starts, webhook_pc, webhook_starts, excluded_ips, db_excluded,
                   handed, env>>
    /\ UNCHANGED <<bufVars, cliVars, auxVars>>

\* collector.start()
RestartProcess ==
    /\ main_pc = "restart"
    /\ \/ /\ process' = "running"
          /\ main_pc' = "refresh"
          /\ Note("start")
          /\ UNCHANGED <<kill_now, shutdown_event, pid_file, readers, writer_pc, writer_data,
                         writer_starts, webhook_pc, webhook_starts, excluded_ips, db_excluded,
                         handed, env>>
       \/ Raise
    /\ UNCHANGED <<bufVars, cliVars, auxVars>>

\* collector.refresh_excluded_ips()
RefreshExcluded ==
    /\ main_pc = "refresh"
    /\ \/ /\ excluded_ips' = db_excluded
          /\ main_pc' = "reader"
          /\ Note("refresh")
          /\ UNCHANGED <<kill_now, shutdown_event, pid_file, process, readers, writer_pc,
                         writer_data, writer_starts, webhook_pc, webhook_starts, db_excluded,
                         handed, env>>
       \/ Raise
    /\ UNCHANGED <<bufVars, cliVars, auxVars>>

\* collector.start_reader_thread() of the process restart
RestartReader ==
    /\ main_pc = "reader"
    /\ \/ /\ StartReaderThread
          /\ main_pc' = "chk_reader"
          /\ Note("reader")
          /\ UNCHANGED <<kill_now, shutdown_event, pid_file, process, writer_pc, writer_data,
                         writer_starts, webhook_pc, webhook_starts, db_excluded, handed, env>>
       \/ Raise
    /\ UNCHANGED <<bufVars, cliVars, auxVars>>

\* if not collector.is_reader_alive() and not shutdown_event.is_set(): restart
CheckReader ==
    /\ main_pc = "chk_reader"
    /\ IF ~IsReaderAlive /\ ~shutdown_event
       THEN \/ /\ StartReaderThread
               /\ main_pc' = "chk_writer"
               /\ UNCHANGED <<kill_now, shutdown_event, pid_file, process, writer_pc,
                              writer_data, writer_starts, webhook_pc, webhook_starts,
                              db_excluded, handed, env, tick>>
            \/ Raise
       ELSE /\ main_pc' = "chk_writer"
            /\ UNCHANGED <<kill_now, shutdown_event, pid_file, process, readers, writer_pc,
                           writer_data, writer_starts, webhook_pc, webhook_starts,
                           excluded_ips, db_excluded, handed, env, tick>>
    /\ UNCHANGED <<bufVars, cliVars, auxVars>>

\* if not collector.is_writer_alive() and not shutdown_event.is_set(): restart
CheckWriter ==
    /\ main_pc = "chk_writer"
    /\ IF ~IsWriterAlive /\ ~shutdown_event
       THEN \/ /\ StartWriterThread
               /\ main_pc' = "chk_webhook"
               /\ UNCHANGED <<kill_now, shutdown_event, pid_file, process, readers,
                              webhook_pc, webhook_starts, excluded_ips, db_excluded,
                              handed, env, tick>>
            \/ Raise
       ELSE /\ main_pc' = "chk_webhook"
            /\ UNCHANGED <<kill_now, shutdown_event, pid_file, process, readers, writer_pc,
                           writer_data, writer_starts, webhook_pc, webhook_starts,
                           excluded_ips, db_excluded, handed, env, tick>>
    /\ UNCHANGED <<bufVars, cliVars, auxVars>>

\* if not webhook_thread.is_alive() and not shutdown_event.is_set(): restart
CheckWebhook ==
    /\ main_pc = "chk_webhook"
    /\ IF ~IsWebhookAlive /\ ~shutdown_event
       THEN \/ /\ StartWebhookThread
               /\ main_pc' = "wait"
               /\ UNCHANGED <<kill_now, shutdown_event, pid_file, process, readers,
                              writer_pc, writer_data, writer_starts, excluded_ips,
                              db_excluded, handed, env, tick>>
            \/ Raise
       ELSE /\ main_pc' = "wait"
            /\ UNCHANGED <<kill_now, shutdown_event, pid_file, process, readers, writer_pc,
                           writer_data, writer_starts, webhook_pc, webhook_starts,
                           excluded_ips, db_excluded, handed, env, tick>>
    /\ UNCHANGED <<bufVars, cliVars, auxVars>>

\* collector.shutdown_event.wait(timeout=config.main_loop_check_sec)
TickWait ==
    /\ main_pc = "wait"
    /\ main_pc' = "loop"
    /\ UNCHANGED <<kill_now, shutdown_event, pid_file, process, readers, writer_pc, writer_data,
                   writer_starts, webhook_pc, webhook_starts, excluded_ips, db_excluded,
                   handed, env, tick>>
    /\ UNCHANGED <<bufVars, cliVars, auxVars>>

\* except Exception: log, shutdown_event.wait(timeout=...)
ExceptWait ==
    /\ main_pc = "except"
    /\ main_pc' = "loop"
    /\ UNCHANGED <<kill_now, shutdown_event, pid_file, process, readers, writer_pc, writer_data,
                   writer_starts, webhook_pc, webhook_starts, excluded_ips, db_excluded,
                   handed, env, tick>>
    /\ UNCHANGED <<bufVars, cliVars, auxVars>>

StopSetEvent_Toggles ==
    /\ main_pc = "stop"
    /\ shutdown_event' = ~shutdown_event
    /\ main_pc' = "terminate"
    /\ UNCHANGED <<kill_now, pid_file, process, readers, writer_pc, writer_data,
                   writer_starts, webhook_pc, webhook_starts, excluded_ips, db_excluded,
                   handed, env, tick>>
    /\ UNCHANGED <<bufVars, cliVars, auxVars>>

\* collector.stop(): self.shutdown_event.set()
StopSetEvent ==
    /\ main_pc = "stop"
    /\ shutdown_event' = TRUE
    /\ main_pc' = "terminate"
    /\ UNCHANGED <<kill_now, pid_file, process, readers, writer_pc, writer_data,
                   writer_starts, webhook_pc, webhook_starts, excluded_ips, db_excluded,
                   handed, env, tick>>
    /\ UNCHANGED <<bufVars, cliVars, auxVars>>

StopTerminate_NoWait ==
    /\ main_pc = "terminate"
    /\ main_pc' = "cleanup"
    /\ UNCHANGED <<kill_now, shutdown_event, pid_file, process, readers, writer_pc, writer_data,
                   writer_starts, webhook_pc, webhook_starts, excluded_ips, db_excluded,
                   handed, env, tick>>
    /\ UNCHANGED <<bufVars, cliVars, auxVars>>

StopTerminate_FirstProcessOnly ==
    /\ main_pc = "terminate"
    /\ process' = IF PollIsNone /\ env.deaths = 0 THEN "exited" ELSE process
    /\ main_pc' = "cleanup"
    /\ UNCHANGED <<kill_now, shutdown_event, pid_file, readers, writer_pc, writer_data,
                   writer_starts, webhook_pc, webhook_starts, excluded_ips, db_excluded,
                   handed, env, tick>>
    /\ UNCHANGED <<bufVars, cliVars, auxVars>>

\* collector.stop(): terminate() and wait(timeout=5), kill() and wait() if it is running
StopTerminate ==
    /\ main_pc = "terminate"
    /\ process' = IF PollIsNone THEN "exited" ELSE process
    /\ main_pc' = "cleanup"
    /\ UNCHANGED <<kill_now, shutdown_event, pid_file, readers, writer_pc, writer_data,
                   writer_starts, webhook_pc, webhook_starts, excluded_ips, db_excluded,
                   handed, env, tick>>
    /\ UNCHANGED <<bufVars, cliVars, auxVars>>

\* daemon_manager.cleanup_pid()
CleanupPid ==
    /\ main_pc = "cleanup"
    /\ pid_file' = NoPid
    /\ main_pc' = "return"
    /\ UNCHANGED <<kill_now, shutdown_event, process, readers, writer_pc, writer_data,
                   writer_starts, webhook_pc, webhook_starts, excluded_ips, db_excluded,
                   handed, env, tick>>
    /\ UNCHANGED <<bufVars, cliVars, auxVars>>

\* run_daemon returns and the interpreter exits: the worker threads are daemon
\* threads (daemon=True, never joined); those still running are killed there
Return ==
    /\ main_pc = "return"
    /\ main_pc' = "exited"
    /\ readers' = [r \in 1..Len(readers) |->
                      IF readers[r].pc = "dead" THEN readers[r]
                      ELSE [pc |-> "killed", sample |-> NoSample]]
    /\ writer_pc' = IF writer_pc = "dead" THEN "dead" ELSE "killed"
    /\ writer_data' = EmptyMap
    /\ webhook_pc' = IF webhook_pc = "dead" THEN "dead" ELSE "killed"
    /\ UNCHANGED <<kill_now, shutdown_event, pid_file, process, writer_starts,
                   webhook_starts, excluded_ips, db_excluded, handed, env, tick>>
    /\ UNCHANGED <<bufVars, cliVars, auxVars>>

MainStep ==
    \/ WritePid
    \/ StartNethogs
    \/ StartWorkers
    \/ LoopTop
    \/ Sleep5
    \/ RestartProcess
    \/ RefreshExcluded
    \/ RestartReader
    \/ CheckReader
    \/ CheckWriter
    \/ CheckWebhook
    \/ TickWait
    \/ ExceptWait
    \/ StopSetEvent
    \/ StopTerminate
    \/ CleanupPid
    \/ Return

\* GracefulKiller._exit_handler: SIGINT or SIGTERM arrives
Signal ==
    /\ main_pc \notin {"exited", "exit1", "crashed"}
    /\ ~kill_now
    /\ kill_now' = TRUE
    /\ UNCHANGED <<main_pc, shutdown_event, pid_file, process, readers, writer_pc, writer_data,
                   writer_starts, webhook_pc, webhook_starts, excluded_ips, db_excluded,
                   handed, env, tick>>
    /\ UNCHANGED <<bufVars, cliVars, auxVars>>

\* ------------------------------------------------------------- environment
\* the sampling process exits by itself
ProcessDies ==
    /\ PollIsNone
    /\ env.deaths < MaxProcDeaths
    /\ process' = "exited"
    /\ env' = [env EXCEPT !.deaths = @ + 1]
    /\ UNCHANGED <<main_pc, kill_now, shutdown_event, pid_file, readers, writer_pc, writer_data,
                   writer_starts, webhook_pc, webhook_starts, excluded_ips, db_excluded,
                   handed, tick>>
    /\ UNCHANGED <<bufVars, cliVars, auxVars>>

\* the output channel of the sampling process reaches end of stream while
\* poll() does not report an exit: the process is exiting (its descriptors are
\* closed before its exit status can be collected) or has closed its stdout
ProcessClosesOutput ==
    /\ process = "running"
    /\ process' = "eof"
    /\ UNCHANGED <<main_pc, kill_now, shutdown_event, pid_file, readers, writer_pc, writer_data,
                   writer_starts, webhook_pc, webhook_starts, excluded_ips, db_excluded,
                   handed, env, tick>>
    /\ UNCHANGED <<bufVars, cliVars, auxVars>>

\* an admin adds or removes an excluded IP in the store
AdminChange(ip) ==
    /\ main_pc \notin {"exited", "exit1", "crashed"}
    /\ env.admin < MaxAdminOps
    /\ db_excluded' = IF ip \in db_excluded THEN db_excluded \ {ip} ELSE db_excluded \cup {ip}
    /\ env' = [env EXCEPT !.admin = @ + 1]
    /\ UNCHANGED <<main_pc, kill_now, shutdown_event, pid_file, process, readers, writer_pc,
                   writer_data, writer_starts, webhook_pc, webhook_starts, excluded_ips,
                   handed, tick>>
    /\ UNCHANGED <<bufVars, cliVars, auxVars>>

\* --------------------------------------------- _reader_loop (collector.py)
\* while not shutdown_event.is_set(): if _process is None or poll() is not None: break
ReaderTop(r) ==
    /\ readers[r].pc = "top"
    /\ readers' = [readers EXCEPT ![r].pc =
                      IF shutdown_event \/ ~PollIsNone THEN "dead" ELSE "read"]
    /\ UNCHANGED <<main_pc, kill_now, shutdown_event, pid_file, process, writer_pc, writer_data,
                   writer_starts, webhook_pc, webhook_starts, excluded_ips, db_excluded,
                   handed, env, tick, buf_data, adds>>
    /\ UNCHANGED <<bufOnlyVars, cliVars, auxVars>>

\* select times out: continue; or readline returns '': break if poll() is not
\* None, else continue
ReaderPoll(r) ==
    /\ readers[r].pc = "read"
    /\ readers' = [readers EXCEPT ![r].pc = IF PollIsNone THEN "top" ELSE "dead"]
    /\ UNCHANGED <<main_pc, kill_now, shutdown_event, pid_file, process, writer_pc, writer_data,
                   writer_starts, webhook_pc, webhook_starts, excluded_ips, db_excluded,
                   handed, env, tick, buf_data, adds>>
    /\ UNCHANGED <<bufOnlyVars, cliVars, auxVars>>

IsExcluded_IgnoresSet(s) == FALSE

\* if ip and ip in self._excluded_ips
IsExcluded(s) == s.ip # None /\ s.ip \in excluded_ips

\* readline returns a line; app, ip, sent, recv = parse_nethogs_line(line): a
\* skipped line (no app) or a sample whose ip is excluded ends the pass of the
\* loop, any other sample is kept for buffer.add
ReaderLine(r) ==
    /\ readers[r].pc = "read"
    /\ process = "running"
    /\ env.lines < MaxLines
    /\ env' = [env EXCEPT !.lines = @ + 1]
    /\ \E s \in Samples \cup {NoSample} :
          readers' = [readers EXCEPT ![r] =
                         [pc |-> IF s.app = None \/ IsExcluded(s) THEN "top" ELSE "add",
                          sample |-> s]]
    /\ UNCHANGED <<main_pc, kill_now, shutdown_event, pid_file, process, writer_pc, writer_data,
                   writer_starts, webhook_pc, webhook_starts, excluded_ips, db_excluded,
                   handed, tick, buf_data, adds>>
    /\ UNCHANGED <<bufOnlyVars, cliVars, auxVars>>

\* self.buffer.add(app, sent, recv, ip)
ReaderAdd(r) ==
    /\ readers[r].pc = "add"
    /\ adds' = Append(adds, readers[r].sample)
    /\ buf_data' = BufferAdd(buf_data, Len(adds) + 1, readers[r].sample)
    /\ readers' = [readers EXCEPT ![r] = [pc |-> "top", sample |-> NoSample]]
    /\ UNCHANGED <<main_pc, kill_now, shutdown_event, pid_file, process, writer_pc, writer_data,
                   writer_starts, webhook_pc, webhook_starts, excluded_ips, db_excluded,
                   handed, env, tick>>
    /\ UNCHANGED <<bufOnlyVars, cliVars, auxVars>>

\* --------------------------------------------- _writer_loop (collector.py)
\* while not shutdown: shutdown_event.wait(timeout=interval); if shutdown: break
WriterWait ==
    /\ writer_pc = "wait"
    /\ writer_pc' = IF shutdown_event THEN "final" ELSE "flush"
    /\ UNCHANGED <<main_pc, kill_now, shutdown_event, pid_file, process, readers, writer_data,
                   writer_starts, webhook_pc, webhook_starts, excluded_ips, db_excluded,
                   handed, env, tick, buf_data, adds>>
    /\ UNCHANGED <<bufOnlyVars, cliVars, auxVars>>

\* data = self.buffer.flush(); if data: ...
WriterFlush ==
    /\ writer_pc = "flush"
    /\ writer_data' = buf_data
    /\ buf_data' = EmptyMap
    /\ writer_pc' = IF buf_data # EmptyMap THEN "save" ELSE "wait"
    /\ UNCHANGED <<main_pc, kill_now, shutdown_event, pid_file, process, readers,
                   writer_starts, webhook_pc, webhook_starts, excluded_ips, db_excluded,
                   handed, env, tick, adds>>
    /\ UNCHANGED <<bufOnlyVars, cliVars, auxVars>>

\* an exception outside the try blocks of the loop ends the Writer thread
WriterCrash ==
    /\ writer_pc = "flush"
    /\ env.crashes < MaxCrashes
    /\ env' = [env EXCEPT !.crashes = @ + 1]
    /\ writer_pc' = "dead"
    /\ UNCHANGED <<main_pc, kill_now, shutdown_event, pid_file, process, readers, writer_data,
                   writer_starts, webhook_pc, webhook_starts, excluded_ips, db_excluded,
                   handed, tick, buf_data, adds>>
    /\ UNCHANGED <<bufOnlyVars, cliVars, auxVars>>

\* save_traffic(data, config), its failure logged
WriterSave ==
    /\ writer_pc = "save"
    /\ handed' = handed \cup IdsIn(writer_data)
    /\ writer_data' = EmptyMap
    /\ writer_pc' = "wait"
    /\ UNCHANGED <<main_pc, kill_now, shutdown_event, pid_file, process, readers,
                   writer_starts, webhook_pc, webhook_starts, excluded_ips, db_excluded,
                   env, tick, buf_data, adds>>
    /\ UNCHANGED <<bufOnlyVars, cliVars, auxVars>>

\* final_data = self.buffer.flush(); if final_data: ...
WriterFinalFlush ==
    /\ writer_pc = "final"
    /\ writer_data' = buf_data
    /\ buf_data' = EmptyMap
    /\ writer_pc' = IF buf_data # EmptyMap THEN "final_save" ELSE "dead"
    /\ UNCHANGED <<main_pc, kill_now, shutdown_event, pid_file, process, readers,
                   writer_starts, webhook_pc, webhook_starts, excluded_ips, db_excluded,
                   handed, env, tick, adds>>
    /\ UNCHANGED <<bufOnlyVars, cliVars, auxVars>>

\* save_traffic(final_data, config), its failure logged; the thread ends
WriterFinalSave ==
    /\ writer_pc = "final_save"
    /\ handed' = handed \cup IdsIn(writer_data)
    /\ writer_data' = EmptyMap
    /\ writer_pc' = "dead"
    /\ UNCHANGED <<main_pc, kill_now, shutdown_event, pid_file, process, readers,
                   writer_starts, webhook_pc, webhook_starts, excluded_ips, db_excluded,
                   env, tick, buf_data, adds>>
    /\ UNCHANGED <<bufOnlyVars, cliVars, auxVars>>

\* ------------------------------------------------ _webhook_worker (daemon.py)
\* while not shutdown_event.is_set(): the loop is left once the event is set
WebhookExit ==
    /\ webhook_pc = "run"
    /\ shutdown_event
    /\ webhook_pc' = "dead"
    /\ UNCHANGED <<main_pc, kill_now, shutdown_event, pid_file, process, readers, writer_pc,
                   writer_data, writer_starts, webhook_starts, excluded_ips, db_excluded,
                   handed, env, tick, buf_data, adds>>
    /\ UNCHANGED <<bufOnlyVars, cliVars, auxVars>>

\* an exception escaping the handler of the loop ends the Webhook worker thread
WebhookCrash ==
    /\ webhook_pc = "run"
    /\ env.crashes < MaxCrashes
    /\ env' = [env EXCEPT !.crashes = @ + 1]
    /\ webhook_pc' = "dead"
    /\ UNCHANGED <<main_pc, kill_now, shutdown_event, pid_file, process, readers, writer_pc,
                   writer_data, writer_starts, webhook_starts, excluded_ips, db_excluded,
                   handed, tick, buf_data, adds>>
    /\ UNCHANGED <<bufOnlyVars, cliVars, auxVars>>

\* ------------------------------------------------------------ specification
Init == BufInit

\* the supervisor and its workers, no sample flowing
Next ==
    \/ MainStep
    \/ Signal
    \/ ProcessDies
    \/ \E r \in 1..Len(readers) : ReaderTop(r)
    \/ \E r \in 1..Len(readers) : ReaderPoll(r)
    \/ WriterWait
    \/ WriterFlush
    \/ WriterCrash
    \/ WriterFinalFlush
    \/ WebhookExit
    \/ WebhookCrash

Spec == Init /\ [][Next]_vars

\* the main thread keeps running: each enabled step of run_daemon is eventually taken
FairSpec == Spec /\ WF_vars(MainStep)

\* GracefulKiller._exit_handler, with the position of the supervisor noted
SignalAt ==
    /\ main_pc \notin {"exited", "exit1", "crashed"}
    /\ ~kill_now
    /\ kill_now' = TRUE
    /\ sig_at' = main_pc
    /\ UNCHANGED <<main_pc, shutdown_event, pid_file, process, readers, writer_pc, writer_data,
                   writer_starts, webhook_pc, webhook_starts, excluded_ips, db_excluded,
                   handed, env, tick>>
    /\ UNCHANGED <<bufVars, cliVars, fnExceptSig>>

\* the supervisor and the Readers, the termination request arriving at any
\* position of run_daemon
QuitNext ==
    \/ MainStep
    \/ SignalAt
    \/ ProcessDies
    \/ \E r \in 1..Len(readers) : ReaderTop(r)
    \/ \E r \in 1..Len(readers) : ReaderPoll(r)

QuitSpec == Init /\ [][QuitNext]_vars

\* the supervisor restarting the sampling process and the Readers while an
\* admin changes the excluded IPs in the store
ExcludeNext ==
    \/ WritePid
    \/ StartNethogs
    \/ StartWorkers
    \/ LoopTop
    \/ Sleep5
    \/ RestartProcess
    \/ RefreshExcluded
    \/ RestartReader
    \/ CheckReader
    \/ CheckWriter
    \/ CheckWebhook
    \/ TickWait
    \/ ExceptWait
    \/ ProcessDies
    \/ \E ip \in IPs : AdminChange(ip)
    \/ \E r \in 1..Len(readers) : ReaderTop(r)
    \/ \E r \in 1..Len(readers) : ReaderPoll(r)

ExcludeSpec == Init /\ [][ExcludeNext]_vars

\* samples flowing from the sampling process to the store, up to the shutdown
DataNext ==
    \/ WritePid
    \/ StartNethogs
    \/ StartWorkers
    \/ LoopTop
    \/ CheckReader
    \/ CheckWriter
    \/ CheckWebhook
    \/ TickWait
    \/ StopSetEvent
    \/ StopTerminate
    \/ CleanupPid
    \/ Return
    \/ Signal
    \/ \E ip \in IPs : AdminChange(ip)
    \/ \E r \in 1..Len(readers) : ReaderTop(r)
    \/ \E r \in 1..Len(readers) : ReaderPoll(r)
    \/ \E r \in 1..Len(readers) : ReaderLine(r)
    \/ \E r \in 1..Len(readers) : ReaderAdd(r)
    \/ WriterWait
    \/ WriterFlush
    \/ WriterSave
    \/ WriterFinalFlush
    \/ WriterFinalSave
    \/ WebhookExit

DataSpec == Init /\ [][DataNext]_vars

\* the Writer after the handler of a failed save: it goes on to the next wait
\* with nothing kept of the batch
AfterFailedSave_Retries == [pc |-> "save", data |-> writer_data]

AfterFailedSave == [pc |-> "wait", data |-> EmptyMap]

\* save_traffic(data, self.config) raises: except Exception, the error is
\* logged (collector.py:181-182) and the loop goes on; data is a local variable
\* that the next pass overwrites
WriterSaveFails ==
    /\ writer_pc = "save"
    /\ handed' = handed \cup IdsIn(writer_data)
    /\ save_lost' = save_lost \cup IdsIn(writer_data)
    /\ writer_data' = AfterFailedSave.data
    /\ writer_pc' = AfterFailedSave.pc
    /\ UNCHANGED <<main_pc, kill_now, shutdown_event, pid_file, process, readers,
                   writer_starts, webhook_pc, webhook_starts, excluded_ips, db_excluded,
                   env, tick, buf_data, adds>>
    /\ UNCHANGED <<bufOnlyVars, cliVars, fnExceptFail>>

\* samples flowing to a store whose writes may fail
WriteNext ==
    \/ WritePid
    \/ StartNethogs
    \/ StartWorkers
    \/ LoopTop
    \/ CheckReader
    \/ CheckWriter
    \/ CheckWebhook
    \/ TickWait
    \/ StopSetEvent
    \/ StopTerminate
    \/ CleanupPid
    \/ Return
    \/ Signal
    \/ \E ip \in IPs : AdminChange(ip)
    \/ \E r \in 1..Len(readers) : ReaderTop(r)
    \/ \E r \in 1..Len(readers) : ReaderPoll(r)
    \/ \E r \in 1..Len(readers) : ReaderLine(r)
    \/ \E r \in 1..Len(readers) : ReaderAdd(r)
    \/ WriterWait
    \/ WriterFlush
    \/ WriterSave
    \/ WriterSaveFails
    \/ WriterFinalFlush
    \/ WriterFinalSave
    \/ WebhookExit

WriteSpec == Init /\ [][WriteNext]_vars

\* stop() has returned and is called again (cli.py live_monitor calls it in a
\* finally clause, collect_once in another, run_daemon after its loop)
StopAgain ==
    /\ main_pc = "cleanup"
    /\ Len(stop_seen) < MaxStopCalls
    /\ stop_seen' = Append(stop_seen, <<shutdown_event, process>>)
    /\ main_pc' = "stop"
    /\ UNCHANGED <<kill_now, shutdown_event, pid_file, process, readers, writer_pc, writer_data,
                   writer_starts, webhook_pc, webhook_starts, excluded_ips, db_excluded,
                   handed, env, tick>>
    /\ UNCHANGED <<bufVars, cliVars, saveVars, sendVars, hookVars, fnVars>>

\* stop() called on a collector in any state: never started (live_monitor
\* after a failed start), running, its process dead, already stopped
StopInit ==
    /\ BufIdle
    /\ db_excluded = {}
    /\ CliIdle
    /\ AuxIdle
    /\ \E pc \in {"write_pid", "stop"} : DaemonIdleAt(pc)

StopNext ==
    \/ MainStep
    \/ StopAgain
    \/ Signal
    \/ ProcessDies
    \/ ProcessClosesOutput
    \/ \E r \in 1..Len(readers) : ReaderTop(r)
    \/ \E r \in 1..Len(readers) : ReaderPoll(r)
    \/ WriterWait
    \/ WriterFlush
    \/ WriterCrash
    \/ WriterFinalFlush
    \/ WebhookExit
    \/ WebhookCrash

StopSpec == StopInit /\ [][StopNext]_vars

\* the supervisor and its workers, with a sampling process whose output can
\* end before its exit is reported
ReadNext ==
    \/ MainStep
    \/ Signal
    \/ ProcessDies
    \/ ProcessClosesOutput
    \/ \E r \in 1..Len(readers) : ReaderTop(r)
    \/ \E r \in 1..Len(readers) : ReaderPoll(r)
    \/ WriterWait
    \/ WriterFlush
    \/ WriterCrash
    \/ WriterFinalFlush
    \/ WebhookExit
    \/ WebhookCrash

ReadSpec == Init /\ [][ReadNext]_vars

\* --------------------------------- netmon start / stop (cli.py, daemon.py)
daemonOnlyVars == <<main_pc, kill_now, shutdown_event, process, readers, writer_pc,
                    writer_data, writer_starts, webhook_pc, webhook_starts, excluded_ips,
                    db_excluded, handed, env, tick>>

\* os.kill(pid, 0) succeeds: the process with this pid exists
ProcAlive(q) == q \in Procs /\ cmd_pc[q] \notin {"idle", "refused", "done", "exited"}

\* int(self.pid_file.read_text().strip()) does not raise ValueError
ParsesAsPid(c) == c # Garbled

IsRunning_ExistsOnly == pid_file # NoPid

\* DaemonManager.is_running(): the marker exists, holds a pid, the process is alive
IsRunning == pid_file # NoPid /\ ParsesAsPid(pid_file) /\ ProcAlive(pid_file)

\* a user runs `netmon start`
StartCmd(p) ==
    /\ cmd_pc[p] = "idle"
    /\ cmd_pc' = [cmd_pc EXCEPT ![p] = "start_check"]
    /\ UNCHANGED <<pid_file, cmd_target, cmd_kill, bufVars, daemonOnlyVars, auxVars>>

\* start: if dm.is_running(): error, Exit(1); else run_daemon(config)
StartCheck(p) ==
    /\ cmd_pc[p] = "start_check"
    /\ cmd_pc' = [cmd_pc EXCEPT ![p] = IF IsRunning THEN "refused" ELSE "write_pid"]
    /\ UNCHANGED <<pid_file, cmd_target, cmd_kill, bufVars, daemonOnlyVars, auxVars>>

\* run_daemon: GracefulKiller(), daemon_manager.write_pid(): Path.write_text
\* opens the marker for writing, which creates it or empties it
DaemonOpenPid(p) ==
    /\ cmd_pc[p] = "write_pid"
    /\ pid_file' = Garbled
    /\ cmd_pc' = [cmd_pc EXCEPT ![p] = "write_text"]
    /\ UNCHANGED <<cmd_target, cmd_kill, bufVars, daemonOnlyVars, auxVars>>

\* write_pid(): str(os.getpid()) is written from the start of the file
DaemonWritePid(p) ==
    /\ cmd_pc[p] = "write_text"
    /\ pid_file' = p
    /\ cmd_pc' = [cmd_pc EXCEPT ![p] = "start_nethogs"]
    /\ UNCHANGED <<cmd_target, cmd_kill, bufVars, daemonOnlyVars, auxVars>>

\* run_daemon: collector.start(), or FileNotFoundError and sys.exit(1)
DaemonStart(p) ==
    /\ cmd_pc[p] = "start_nethogs"
    /\ \/ cmd_pc' = [cmd_pc EXCEPT ![p] = "loop"]
       \/ cmd_pc' = [cmd_pc EXCEPT ![p] = "exited"]
    /\ UNCHANGED <<pid_file, cmd_target, cmd_kill, bufVars, daemonOnlyVars, auxVars>>

\* SIGINT from the daemon's terminal: GracefulKiller._exit_handler
DaemonInterrupt(p) ==
    /\ cmd_pc[p] = "loop"
    /\ ~cmd_kill[p]
    /\ cmd_kill' = [cmd_kill EXCEPT ![p] = TRUE]
    /\ UNCHANGED <<pid_file, cmd_pc, cmd_target, bufVars, daemonOnlyVars, auxVars>>

\* run_daemon: the loop test finds kill_now; collector.stop()
DaemonLeaveLoop(p) ==
    /\ cmd_pc[p] = "loop"
    /\ cmd_kill[p]
    /\ cmd_pc' = [cmd_pc EXCEPT ![p] = "cleanup_pid"]
    /\ UNCHANGED <<pid_file, cmd_target, cmd_kill, bufVars, daemonOnlyVars, auxVars>>

\* run_daemon: daemon_manager.cleanup_pid() (unlink, whatever the marker holds), return
DaemonCleanupPid(p) ==
    /\ cmd_pc[p] = "cleanup_pid"
    /\ pid_file' = NoPid
    /\ cmd_pc' = [cmd_pc EXCEPT ![p] = "exited"]
    /\ UNCHANGED <<cmd_target, cmd_kill, bufVars, daemonOnlyVars, auxVars>>

\* a user runs `netmon stop`
StopCmd(p) ==
    /\ cmd_pc[p] = "idle"
    /\ cmd_pc' = [cmd_pc EXCEPT ![p] = "stop_check"]
    /\ UNCHANGED <<pid_file, cmd_target, cmd_kill, bufVars, daemonOnlyVars, auxVars>>

\* stop: if not dm.is_running(): return
StopCheck(p) ==
    /\ cmd_pc[p] = "stop_check"
    /\ cmd_pc' = [cmd_pc EXCEPT ![p] = IF IsRunning THEN "stop_get_pid" ELSE "done"]
    /\ UNCHANGED <<pid_file, cmd_target, cmd_kill, bufVars, daemonOnlyVars, auxVars>>

\* DaemonManager.stop: pid = self.get_pid() (None without a marker or on
\* ValueError); if pid is None: return False
StopGetPid(p) ==
    /\ cmd_pc[p] = "stop_get_pid"
    /\ cmd_target' = [cmd_target EXCEPT ![p] = IF ParsesAsPid(pid_file) THEN pid_file ELSE NoPid]
    /\ cmd_pc' = [cmd_pc EXCEPT ![p] = IF pid_file = NoPid \/ ~ParsesAsPid(pid_file)
                                       THEN "done" ELSE "stop_kill"]
    /\ UNCHANGED <<pid_file, cmd_kill, bufVars, daemonOnlyVars, auxVars>>

\* DaemonManager.stop: os.kill(pid, SIGTERM); OSError: cleanup_pid(), return False
StopKill(p) ==
    /\ cmd_pc[p] = "stop_kill"
    /\ IF ProcAlive(cmd_target[p])
       THEN /\ cmd_kill' = [cmd_kill EXCEPT ![cmd_target[p]] = TRUE]
            /\ cmd_pc' = [cmd_pc EXCEPT ![p] = "stop_wait"]
            /\ UNCHANGED pid_file
       ELSE /\ pid_file' = NoPid
            /\ cmd_pc' = [cmd_pc EXCEPT ![p] = "done"]
            /\ UNCHANGED cmd_kill
    /\ UNCHANGED <<cmd_target, bufVars, daemonOnlyVars, auxVars>>

\* DaemonManager.stop: up to 50 polls of os.kill(pid, 0), 0.1 s apart, left when
\* the process is gone or after the last poll; then cleanup_pid(), return True
StopWaitCleanup(p) ==
    /\ cmd_pc[p] = "stop_wait"
    /\ pid_file' = NoPid
    /\ cmd_pc' = [cmd_pc EXCEPT ![p] = "done"]
    /\ UNCHANGED <<cmd_target, cmd_kill, bufVars, daemonOnlyVars, auxVars>>

PidNext ==
    \/ \E p \in Procs : StartCmd(p)
    \/ \E p \in Procs : StartCheck(p)
    \/ \E p \in Procs : DaemonOpenPid(p)
    \/ \E p \in Procs : DaemonWritePid(p)
    \/ \E p \in Procs : DaemonStart(p)
    \/ \E p \in Procs : DaemonInterrupt(p)
    \/ \E p \in Procs : DaemonLeaveLoop(p)
    \/ \E p \in Procs : DaemonCleanupPid(p)
    \/ \E p \in Procs : StopCmd(p)
    \/ \E p \in Procs : StopCheck(p)
    \/ \E p \in Procs : StopGetPid(p)
    \/ \E p \in Procs : StopKill(p)
    \/ \E p \in Procs : StopWaitCleanup(p)

PidSpec == Init /\ [][PidNext]_vars

\* ------------------------------------------------ save_traffic (database.py)
\* the remote IPs an entry of a flushed batch can hold
RemoteIPs == {"ip1", "ip2", "ip3"}

\* the entries of a flushed batch: {'sent': .., 'recv': .., 'ips': set()}
Entries == [sent : 0..MaxBytes, recv : 0..MaxBytes, ips : SUBSET RemoteIPs]

\* the flushed batches: dicts app -> entry
Batches == UNION {[A -> Entries] : A \in SUBSET Apps}

\* the orders in which a set (list(set), dict keys) can be iterated
Orders(S) == {o \in [1..Cardinality(S) -> S] : \A i, j \in 1..Cardinality(S) : o[i] = o[j] => i = j}

HasTraffic_SentOnly(e) == e.sent > 0

\* if data['sent'] > 0 or data['recv'] > 0
HasTraffic(e) == e.sent > 0 \/ e.recv > 0

SplitShare_NoRemainder(total, n, i) == total \div n

\* base + (1 if i < remainder else 0), i counted from 0
SplitShare(total, n, i) ==
    LET base == total \div n
        remainder == total - (base * n)
    IN  base + (IF i < remainder THEN 1 ELSE 0)

\* the rows save_traffic inserts for one entry, its ips iterated in order o
EntryRows(app, e, o) ==
    IF ~HasTraffic(e) THEN <<>>
    ELSE IF e.ips # {}
    THEN [i \in 1..Cardinality(e.ips) |->
             [app |-> app, ip |-> o[i],
              sent |-> SplitShare(e.sent, Cardinality(e.ips), i - 1),
              recv |-> SplitShare(e.recv, Cardinality(e.ips), i - 1)]]
    ELSE <<[app |-> app, ip |-> None, sent |-> e.sent, recv |-> e.recv]>>

\* if not traffic_data: return; conn = get_connection(config); c = conn.cursor()
SaveCall ==
    /\ save_pc = "call"
    /\ IF save_data = EmptyMap
       THEN save_pc' = "done" /\ UNCHANGED save_todo
       ELSE /\ save_pc' = "loop"
            /\ \E o \in Orders(DOMAIN save_data) : save_todo' = o
    /\ UNCHANGED <<save_data, save_tx, db_traffic, exceptSave>>

\* for app, data in traffic_data.items(): one pass of the loop body
SaveEntry ==
    /\ save_pc = "loop"
    /\ save_todo # <<>>
    /\ \E o \in Orders(save_data[Head(save_todo)].ips) :
          save_tx' = save_tx \o EntryRows(Head(save_todo), save_data[Head(save_todo)], o)
    /\ save_todo' = Tail(save_todo)
    /\ UNCHANGED <<save_pc, save_data, db_traffic, exceptSave>>

\* conn.commit(); conn.close()
SaveCommit ==
    /\ save_pc = "loop"
    /\ save_todo = <<>>
    /\ db_traffic' = db_traffic \o save_tx
    /\ save_tx' = <<>>
    /\ save_pc' = "done"
    /\ UNCHANGED <<save_data, save_todo, exceptSave>>

SaveRaises_KeepsRows ==
    /\ save_pc = "loop"
    /\ db_traffic' = db_traffic \o save_tx
    /\ save_tx' = <<>>
    /\ save_pc' = "raised"
    /\ UNCHANGED <<save_data, save_todo, exceptSave>>

\* c.execute or conn.commit raises sqlite3.Error: the call is left by the
\* exception, the connection is dropped with its transaction uncommitted
SaveRaises ==
    /\ save_pc = "loop"
    /\ save_tx' = <<>>
    /\ save_pc' = "raised"
    /\ UNCHANGED <<save_data, save_todo, db_traffic, exceptSave>>

\* save_traffic is called on any flushed batch
SaveInit ==
    /\ RestIdle
    /\ save_pc = "call"
    /\ save_data \in Batches
    /\ save_todo = <<>>
    /\ save_tx = <<>>
    /\ db_traffic = <<>>
    /\ SendIdle
    /\ HookIdle
    /\ FnIdle

SaveNext ==
    \/ SaveCall
    \/ SaveEntry
    \/ SaveCommit
    \/ SaveRaises

SaveSpec == SaveInit /\ [][SaveNext]_vars

\* ------------------------------------------- WebhookSender.send (webhook.py)
\* the outcomes of one client.post + raise_for_status: accepted, or one of the
\* three handled exceptions
PostOutcomes == {"ok", "http_status_error", "request_error", "unexpected_error"}

\* for attempt in range(self.max_retries): one more pass, or the loop is over:
\* logger.error("Failed after ..."); return False
SendLoop ==
    /\ send_pc = "loop"
    /\ IF send_attempt < send_max
       THEN send_pc' = "post" /\ UNCHANGED send_result
       ELSE send_pc' = "done" /\ send_result' = FALSE
    /\ UNCHANGED <<send_max, send_attempt, send_log, exceptSend, hookVars>>

\* response = self.client.post(...); response.raise_for_status(); return True,
\* or an except clause: last_error = e; logger.warning(...)
SendPost ==
    /\ send_pc = "post"
    /\ \E o \in PostOutcomes :
          /\ send_log' = Append(send_log, o)
          /\ IF o = "ok"
             THEN send_pc' = "done" /\ send_result' = TRUE
             ELSE send_pc' = "failed" /\ UNCHANGED send_result
    /\ UNCHANGED <<send_max, send_attempt, exceptSend, hookVars>>

SleepsBeforeNext_OffByOne == send_attempt < send_max

\* if attempt < self.max_retries - 1
SleepsBeforeNext == send_attempt < send_max - 1

\* if attempt < self.max_retries - 1: time.sleep(self.retry_delay); next attempt
SendRetryDelay ==
    /\ send_pc = "failed"
    /\ send_log' = IF SleepsBeforeNext THEN Append(send_log, "sleep") ELSE send_log
    /\ send_attempt' = send_attempt + 1
    /\ send_pc' = "loop"
    /\ UNCHANGED <<send_max, send_result, exceptSend, hookVars>>

\* send(payload) is called on a sender built with any max_retries up to the default
SendInit ==
    /\ RestIdle
    /\ SaveIdle
    /\ HookIdle
    /\ FnIdle
    /\ send_pc = "loop"
    /\ send_max \in 0..DefaultMaxRetries
    /\ send_attempt = 0
    /\ send_log = <<>>
    /\ send_result = None

SendNext ==
    \/ SendLoop
    \/ SendPost
    \/ SendRetryDelay

SendSpec == SendInit /\ [][SendNext]_vars

\* ---------------------------------- _webhook_worker, send_webhook (webhook.py)
\* the configured intervals followed, in minutes
Intervals == {2, 30}

Configured_IgnoresEnabled(cfg) == cfg.exists /\ cfg.url

\* if webhook_config and webhook_config.enabled and webhook_config.url
Configured(cfg) == cfg.exists /\ cfg.enabled /\ cfg.url

IsDue_Strict(cfg, now) == cfg.last_sent = NoTime \/ now - cfg.last_sent > cfg.interval

\* should_send: last_sent unset, or elapsed >= interval_sec
IsDue(cfg, now) == cfg.last_sent = NoTime \/ now - cfg.last_sent >= cfg.interval

\* the webhook_logs rows kept: the newest LogCap of them (the worker's own rows
\* are at least a minute apart, so their timestamps order them as inserted)
LastRows(log) == IF Len(log) <= LogCap THEN log ELSE SubSeq(log, Len(log) - LogCap + 1, Len(log))

\* a pass of the loop: webhook_config = get_webhook_config(config) and the
\* decision to send, to wait for the short cadence, or for the long one
HookWake ==
    /\ hook_pc = "top"
    /\ ~shutdown_event
    /\ hook_pc' = IF ~Configured(hook_cfg) THEN "wait300"
                  ELSE IF IsDue(hook_cfg, hook_now) THEN "send" ELSE "wait60"
    /\ UNCHANGED <<hook_now, hook_cfg, hook_log, hook_sent, sendVars, exceptHook>>

\* send_webhook(config): the configuration is read again, the payload built,
\* sender = WebhookSender(webhook_config.url); sender.send(payload) is entered
HookSend ==
    /\ hook_pc = "send"
    /\ IF hook_cfg.exists /\ hook_cfg.url /\ hook_cfg.enabled
       THEN /\ hook_pc' = "sending"
            /\ send_pc' = "loop"
            /\ send_max' = DefaultMaxRetries
            /\ send_attempt' = 0
            /\ send_log' = <<>>
            /\ send_result' = None
       ELSE /\ hook_pc' = "wait60"
            /\ UNCHANGED sendVars
    /\ UNCHANGED <<hook_now, hook_cfg, hook_log, hook_sent, exceptHook>>

LastSentAfter_NotUpdated(ok) == hook_cfg.last_sent

\* update_webhook_last_sent(config), called on success only
LastSentAfter(ok) == IF ok THEN hook_now ELSE hook_cfg.last_sent

\* sender.send has returned: log_webhook_result('success', 200, 'OK') and
\* update_webhook_last_sent, or log_webhook_result('error', 0, 'Send failed');
\* sender.close(); back in the worker
HookSendDone ==
    /\ hook_pc = "sending"
    /\ send_pc = "done"
    /\ hook_log' = LastRows(Append(hook_log, IF send_result THEN "success" ELSE "error"))
    /\ hook_cfg' = [hook_cfg EXCEPT !.last_sent = LastSentAfter(send_result)]
    /\ hook_sent' = Append(hook_sent, [t |-> hook_now, ok |-> send_result])
    /\ hook_pc' = "wait60"
    /\ send_pc' = "idle"
    /\ send_attempt' = 0
    /\ send_log' = <<>>
    /\ send_result' = None
    /\ UNCHANGED <<hook_now, send_max, exceptHook>>

\* shutdown_event.wait(timeout=60)
HookWait60 ==
    /\ hook_pc = "wait60"
    /\ hook_now < MaxTime
    /\ hook_now' = hook_now + 1
    /\ hook_pc' = "top"
    /\ UNCHANGED <<hook_cfg, hook_log, hook_sent, sendVars, exceptHook>>

\* shutdown_event.wait(timeout=300)
HookWait300 ==
    /\ hook_pc = "wait300"
    /\ hook_now + 5 <= MaxTime
    /\ hook_now' = hook_now + 5
    /\ hook_pc' = "top"
    /\ UNCHANGED <<hook_cfg, hook_log, hook_sent, sendVars, exceptHook>>

\* an admin enables or disables the webhook: set_webhook_enabled, an UPDATE of
\* the row if there is one
HookAdminToggle ==
    /\ hook_cfg.exists
    /\ hook_pc # "idle"
    /\ hook_cfg' = [hook_cfg EXCEPT !.enabled = ~@]
    /\ UNCHANGED <<hook_pc, hook_now, hook_log, hook_sent, sendVars, exceptHook>>

\* the worker starts with any webhook configuration in the store
HookInit ==
    /\ RestIdle
    /\ SaveIdle
    /\ SendIdle
    /\ FnIdle
    /\ hook_pc = "top"
    /\ hook_now \in {30, 31}
    /\ hook_cfg \in [exists : BOOLEAN, enabled : BOOLEAN, url : BOOLEAN, interval : Intervals,
                    last_sent : {NoTime, 0, 21, 30}]
    /\ hook_log = <<>>
    /\ hook_sent = <<>>

HookNext ==
    \/ HookWake
    \/ HookSend
    \/ SendLoop
    \/ SendPost
    \/ SendRetryDelay
    \/ HookSendDone
    \/ HookWait60
    \/ HookWait300
    \/ HookAdminToggle

HookSpec == HookInit /\ [][HookNext]_vars

\* ------------------------------------------- log_webhook_result (database.py)
\* the rows with the smallest timestamp
Oldest(rows) == {r \in rows : \A q \in rows : r.ts <= q.ts}

\* DELETE FROM webhook_logs WHERE id NOT IN (SELECT id FROM webhook_logs
\* ORDER BY timestamp DESC LIMIT 100): the sets of rows the statement can leave.
\* The order of rows with equal timestamps is not defined by the query, so
\* any of them may be the one that falls outside the limit.
RECURSIVE Kept(_)
Kept(rows) ==
    IF Cardinality(rows) <= LogCap THEN {rows}
    ELSE UNION {Kept(rows \ {r}) : r \in Oldest(rows)}

\* log_webhook_result(status, code, message), one transaction: the INSERT with
\* timestamp DEFAULT CURRENT_TIMESTAMP, the DELETE and the commit. Callers are
\* the deliveries of the Webhook worker and of `netmon webhook test`
\* (cli.py:349), which may end within the same second.
LogWebhookResult ==
    /\ log_appended < LogCap + MaxOverflow
    /\ LET tie == \E r \in log_rows : r.ts = log_clock
           row == [id |-> log_appended + 1, ts |-> log_clock]
       IN  /\ tie => log_ties < MaxSameSecond
           /\ log_ties' = IF tie THEN log_ties + 1 ELSE log_ties
           /\ \E K \in Kept(log_rows \cup {row}) : log_rows' = K
    /\ log_appended' = log_appended + 1
    /\ UNCHANGED <<log_clock, exceptLog>>

\* the clock of the store reaches the next second
LogClockTick ==
    /\ \E r \in log_rows : r.ts = log_clock
    /\ log_clock' = log_clock + 1
    /\ UNCHANGED <<log_rows, log_appended, log_ties, exceptLog>>

LogInit ==
    /\ BesideLog
    /\ LogIdle

LogNext ==
    \/ LogWebhookResult
    \/ LogClockTick

LogSpec == LogInit /\ [][LogNext]_vars

\* ------------------------------------- send_webhook: the report period
PeriodOf_StrictBounds(interval) ==
    IF interval < HourlyMax THEN "hourly"
    ELSE IF interval < DailyMax THEN "daily"
    ELSE IF interval < WeeklyMax THEN "weekly"
    ELSE "monthly"

\* webhook.py:237-245, the if / elif chain on interval
PeriodOf(interval) ==
    IF interval <= HourlyMax THEN "hourly"
    ELSE IF interval <= DailyMax THEN "daily"
    ELSE IF interval <= WeeklyMax THEN "weekly"
    ELSE "monthly"

\* build_webhook_payload: days_map, in hours (1/24 day, 1, 7, 30 days); an
\* unknown period falls back to one day
HoursOf(period) ==
    CASE period = "hourly" -> 1
      [] period = "daily" -> 24
      [] period = "weekly" -> 168
      [] period = "monthly" -> 720
      [] OTHER -> 24

\* the intervals followed: Spread minutes around each threshold and around 0
PeriodIntervals ==
    UNION {(b - Spread)..(b + Spread) : b \in {0, HourlyMax, DailyMax, WeeklyMax}}
        \cup {WeeklyMax * 5}

\* interval = webhook_config.interval_minutes and the if / elif chain
PeriodResolve ==
    /\ per_pc = "resolve"
    /\ per_period' = PeriodOf(per_interval)
    /\ per_pc' = "build"
    /\ UNCHANGED <<per_interval, per_payload, exceptPeriod>>

\* payload = build_webhook_payload(period=period, config=config)
PeriodBuild ==
    /\ per_pc = "build"
    /\ per_payload' = [report_period |-> per_period, hours |-> HoursOf(per_period)]
    /\ per_pc' = "send"
    /\ UNCHANGED <<per_interval, per_period, exceptPeriod>>

\* sender.send(payload) and the rest of send_webhook
PeriodSend ==
    /\ per_pc = "send"
    /\ per_pc' = "done"
    /\ UNCHANGED <<per_interval, per_period, per_payload, exceptPeriod>>

\* send_webhook has read an enabled configuration holding a url
PeriodInit ==
    /\ BesidePeriod
    /\ per_pc = "resolve"
    /\ per_interval \in PeriodIntervals
    /\ per_period = None
    /\ per_payload = [report_period |-> None, hours |-> 0]

PeriodNext ==
    \/ PeriodResolve
    \/ PeriodBuild
    \/ PeriodSend

PeriodSpec == PeriodInit /\ [][PeriodNext]_vars

\* ------------------------------------------- cleanup_old_data (database.py)
\* the traffic tables followed: up to MaxRows rows, each written on some day
TrafficTables ==
    UNION {{{[id |-> i, ts |-> f[i]] : i \in 1..n} : f \in [1..n -> 0..MaxDays]} : n \in 0..MaxRows}

\* cutoff = datetime.utcnow() - timedelta(days=config.data_retention_days)
Cutoff == clean_now - clean_keep

\* c.execute('DELETE FROM traffic WHERE timestamp < ?', (cutoff_str,)) opens a
\* transaction; deleted = c.rowcount
CleanDelete ==
    /\ clean_pc = "call"
    /\ clean_tx' = {r \in clean_rows : r.ts < Cutoff}
    /\ clean_pc' = IF clean_tx' # {} THEN "vacuum" ELSE "trim"
    /\ UNCHANGED <<clean_rows, clean_now, clean_keep, clean_before, exceptClean>>

\* if deleted > 0: c.execute('VACUUM'). The DELETE has left a transaction open
\* on the connection, and sqlite3 refuses VACUUM inside a transaction
\* (OperationalError: cannot VACUUM from within a transaction); the exception
\* leaves cleanup_old_data before conn.commit(), and the connection is dropped,
\* which rolls the DELETE back
CleanVacuum ==
    /\ clean_pc = "vacuum"
    /\ clean_tx' = {}
    /\ clean_pc' = "raised"
    /\ UNCHANGED <<clean_rows, clean_now, clean_keep, clean_before, exceptClean>>

\* DELETE FROM webhook_logs ... LIMIT 1000: no traffic row is touched
CleanTrimLogs ==
    /\ clean_pc = "trim"
    /\ clean_pc' = "commit"
    /\ UNCHANGED <<clean_rows, clean_tx, clean_now, clean_keep, clean_before, exceptClean>>

\* conn.commit(); conn.close(); return deleted
CleanCommit ==
    /\ clean_pc = "commit"
    /\ clean_rows' = clean_rows \ clean_tx
    /\ clean_tx' = {}
    /\ clean_pc' = "returned"
    /\ UNCHANGED <<clean_now, clean_keep, clean_before, exceptClean>>

\* cleanup_old_data is called on any stored rows, with a retention of 1 or 2 days
CleanInit ==
    /\ BesideClean
    /\ clean_pc = "call"
    /\ clean_rows \in TrafficTables
    /\ clean_before = clean_rows
    /\ clean_tx = {}
    /\ clean_now = MaxDays
    /\ clean_keep \in {1, 2}

CleanNext ==
    \/ CleanDelete
    \/ CleanVacuum
    \/ CleanTrimLogs
    \/ CleanCommit

CleanSpec == CleanInit /\ [][CleanNext]_vars

\* ------------------------------- _writer_loop: the daily cleanup (collector.py)
\* the calendar date of a time
DateOf(t) == t \div QuartersPerDay

\* (datetime.now() - last_cleanup).days: the whole days of the difference
DaysBetween(now, last) == (now - last) \div QuartersPerDay

\* self.shutdown_event.wait(timeout=self.config.db_write_interval) returns
\* without the event set, and the buffer is flushed and saved: the ticks of a
\* quarter of a day are taken as one
DayTick ==
    /\ day_pc = "wait"
    /\ day_now < day_start + MaxTicks
    /\ day_now' = day_now + 1
    /\ day_pc' = "check"
    /\ UNCHANGED <<day_last, day_start, day_log, exceptDay>>

\* if (datetime.now() - last_cleanup).days >= 1
DayCheck ==
    /\ day_pc = "check"
    /\ IF DaysBetween(day_now, day_last) >= 1
       THEN /\ day_pc' = "cleanup"
            /\ day_log' = Append(day_log, day_now)
       ELSE /\ day_pc' = "wait"
            /\ UNCHANGED day_log
    /\ UNCHANGED <<day_now, day_last, day_start, exceptDay>>

\* cleanup_old_data(self.config) returns; last_cleanup = datetime.now()
DayCleanupDone ==
    /\ day_pc = "cleanup"
    /\ day_last' = day_now
    /\ day_pc' = "wait"
    /\ UNCHANGED <<day_now, day_start, day_log, exceptDay>>

\* cleanup_old_data raises (as it does when it finds rows to delete): the
\* error is logged and last_cleanup keeps its value
DayCleanupRaises ==
    /\ day_pc = "cleanup"
    /\ day_pc' = "wait"
    /\ UNCHANGED <<day_now, day_last, day_start, day_log, exceptDay>>

\* the Writer starts at any time of the day: last_cleanup = datetime.now()
DayInit ==
    /\ BesideDay
    /\ day_pc = "wait"
    /\ day_now \in 0..(QuartersPerDay - 1)
    /\ day_last = day_now
    /\ day_start = day_now
    /\ day_log = <<>>

DayNext ==
    \/ DayTick
    \/ DayCheck
    \/ DayCleanupDone
    \/ DayCleanupRaises

DaySpec == DayInit /\ [][DayNext]_vars

\* ---------------------------------------------- parse_nethogs_line (parser.py)
\* the strings of parser.py, as sequences of characters
StrUnknown == <<"u", "n", "k", "n", "o", "w", "n">>
StrTCP == <<"T", "C", "P">>
StrUDP == <<"U", "D", "P">>
StrRefreshing == <<"R", "e", "f", "r", "e", "s", "h", "i", "n", "g">>
\* the directory, names, pid and connection the lines followed are written from
DirUsrBin == <<"/", "u", "s", "r", "/", "b", "i", "n", "/">>
NameFirefox == <<"f", "i", "r", "e", "f", "o", "x">>
NamePython3 == <<"p", "y", "t", "h", "o", "n", "3">>
NameGnomeShell == <<"g", "n", "o", "m", "e", "-", "s", "h", "e", "l", "l">>
Pid4821 == <<"4", "8", "2", "1">>
LocalAddr == <<"1", "9", "2", ".", "1", "6", "8", ".", "1", ".", "5">>
RemoteAddr == <<"9", "3", ".", "1", "8", "4", ".", "2", "1", "6", ".", "3", "4">>
Port443 == <<"4", "4", "3">>
\* byte fields, in KB
Field10 == <<"1", ".", "0">>
Field20 == <<"2", ".", "0">>
Field05 == <<"0", ".", "5">>
Field7 == <<"7">>
FieldNoNumber == <<"n", "/", "a">>
FieldComma == <<"1", ",", "5">>
\* lines that carry no sample
LineRefreshing == <<"R", "e", "f", "r", "e", "s", "h", "i", "n", "g", ":">>
LineBlank == <<" ", "\t", " ">>
LineOneField == <<"f", "i", "r", "e", "f", "o", "x", "/", "4", "8", "2", "1">>
LineTwoFields == <<"f", "i", "r", "e", "f", "o", "x", "/", "4", "8", "2", "1", "\t",
    "1", ".", "0">>

Digits == {"0", "1", "2", "3", "4", "5", "6", "7", "8", "9"}

\* the characters str.strip() removes
Whitespace == {" ", "\t", "\n", "\r"}

DigitValue(c) ==
    CASE c = "0" -> 0 [] c = "1" -> 1 [] c = "2" -> 2 [] c = "3" -> 3 [] c = "4" -> 4
      [] c = "5" -> 5 [] c = "6" -> 6 [] c = "7" -> 7 [] c = "8" -> 8 [] c = "9" -> 9

RECURSIVE LStrip(_)
LStrip(s) == IF s # <<>> /\ Head(s) \in Whitespace THEN LStrip(Tail(s)) ELSE s

RECURSIVE RStrip(_)
RStrip(s) ==
    IF s # <<>> /\ s[Len(s)] \in Whitespace THEN RStrip(SubSeq(s, 1, Len(s) - 1)) ELSE s

\* str.strip()
StrStrip(s) == RStrip(LStrip(s))

\* str.startswith(p)
StartsWith(s, p) == Len(s) >= Len(p) /\ SubSeq(s, 1, Len(p)) = p

\* c in s
Contains(s, c) == \E i \in 1..Len(s) : s[i] = c

\* str.split(c)
RECURSIVE StrSplit(_, _)
StrSplit(s, c) ==
    IF ~Contains(s, c) THEN <<s>>
    ELSE LET i == CHOOSE k \in 1..Len(s) : s[k] = c /\ \A j \in 1..(k - 1) : s[j] # c
         IN  <<SubSeq(s, 1, i - 1)>> \o StrSplit(SubSeq(s, i + 1, Len(s)), c)

\* str.isdigit()
IsDigit(p) == p # <<>> /\ \A i \in 1..Len(p) : p[i] \in Digits

RECURSIVE ToInt(_)
ToInt(p) == IF p = <<>> THEN 0 ELSE 10 * ToInt(SubSeq(p, 1, Len(p) - 1)) + DigitValue(p[Len(p)])

RECURSIVE Pow10(_)
Pow10(k) == IF k = 0 THEN 1 ELSE 10 * Pow10(k - 1)

\* the field without sign, split at the decimal point
Unsigned(f) ==
    LET t == StrStrip(f)
    IN  StrSplit(IF t # <<>> /\ Head(t) \in {"+", "-"} THEN Tail(t) ELSE t, ".")

\* float(field) does not raise ValueError: decimal notation with an optional
\* sign and at most one point (the exponent, inf and nan notations that float()
\* also takes do not occur in the fields followed)
FloatParses(f) ==
    LET u == Unsigned(f)
    IN  /\ Len(u) <= 2
        /\ \A i \in 1..Len(u) : u[i] = <<>> \/ IsDigit(u[i])
        /\ \E i \in 1..Len(u) : u[i] # <<>>

\* float(field) * 1024 for an unsigned field that parses
Times1024(f) ==
    LET u == Unsigned(f)
        frac == IF Len(u) = 2 THEN u[2] ELSE <<>>
    IN  [n |-> ToInt(u[1] \o frac) * 1024, d |-> Pow10(Len(frac))]

\* the positions after a match of \d{1,3} that starts at i
OctetEnds(s, i) ==
    {i + n : n \in {m \in 1..3 : i + m - 1 <= Len(s) /\ \A k \in i..(i + m - 1) : s[k] \in Digits}}

\* the positions after a match of \d{1,3}(\.\d{1,3}){k-1} that starts at i
RECURSIVE IpEnds(_, _, _)
IpEnds(s, i, k) ==
    IF k = 1 THEN OctetEnds(s, i)
    ELSE UNION {IF e <= Len(s) /\ s[e] = "." THEN IpEnds(s, e + 1, k - 1) ELSE {} :
                   e \in OctetEnds(s, i)}

\* the positions after a match of \d+ that starts at i
DigitsEnds(s, i) == {e \in (i + 1)..(Len(s) + 1) : \A k \in i..(e - 1) : s[k] \in Digits}

At(s, i, c) == i <= Len(s) /\ s[i] = c

\* the matches of ip:port-ip:port that start at i, as <<start, end>> of group 2
PairAt(s, i) ==
    UNION {UNION {UNION {IF At(s, e2, ":") /\ DigitsEnds(s, e2 + 1) # {}
                         THEN {<<p1 + 1, e2 - 1>>} ELSE {} :
                            e2 \in IF At(s, p1, "-") THEN IpEnds(s, p1 + 1, 4) ELSE {}} :
                     p1 \in IF At(s, e1, ":") THEN DigitsEnds(s, e1 + 1) ELSE {}} :
              e1 \in IpEnds(s, i, 4)}

Least(S) == CHOOSE x \in S : \A y \in S : x <= y
Greatest(S) == CHOOSE x \in S : \A y \in S : x >= y

\* extract_remote_ip: group 2 of the leftmost ip:port-ip:port, else the
\* leftmost (greedy) single address, else None
ExtractRemoteIp(prog) ==
    LET pairs == {i \in 1..Len(prog) : PairAt(prog, i) # {}}
        singles == {i \in 1..Len(prog) : IpEnds(prog, i, 4) # {}}
    IN  IF pairs # {}
        THEN LET g == CHOOSE m \in PairAt(prog, Least(pairs)) : TRUE
             IN  SubSeq(prog, g[1], g[2])
        ELSE IF singles # {}
        THEN SubSeq(prog, Least(singles), Greatest(IpEnds(prog, Least(singles), 4)) - 1)
        ELSE <<>>

\* extract_app_name, with a '/': the part before the first all-digit part, or
\* failing that the last part that is not empty, not digits and holds no ':'
\* or '-'; without a '/': prog_info.split('/')[0].split('-')[0]
ExtractAppName(prog) ==
    IF Contains(prog, "/")
    THEN LET parts == StrSplit(prog, "/")
             nums == {i \in 1..Len(parts) : IsDigit(parts[i])}
             byPid == IF nums # {} /\ Least(nums) > 1 THEN parts[Least(nums) - 1] ELSE <<>>
             rest == {i \in 1..Len(parts) :
                         /\ parts[i] # <<>> /\ ~IsDigit(parts[i])
                         /\ ~Contains(parts[i], ":") /\ ~Contains(parts[i], "-")}
         IN  IF byPid # <<>> THEN byPid
             ELSE IF rest # {} THEN parts[Greatest(rest)] ELSE <<>>
    ELSE StrSplit(StrSplit(prog, "/")[1], "-")[1]

\* validate_app_name without the strip() of line 129
ValidateAppName_NoStrip(name) ==
    IF name = <<>> \/ IsDigit(name) \/ IpEnds(name, 1, 4) # {} \/ name \in {StrUnknown, StrTCP, StrUDP}
    THEN StrUnknown
    ELSE name

\* validate_app_name: 'unknown' for no name, digits, a name that starts with
\* an address, and the names unknown, TCP, UDP
ValidateAppName(name) ==
    LET a == StrStrip(name)
    IN  IF name = <<>> THEN StrUnknown
        ELSE IF IsDigit(a) \/ IpEnds(a, 1, 4) # {} \/ a \in {StrUnknown, StrTCP, StrUDP, <<>>}
        THEN StrUnknown
        ELSE a

\* ip:port-ip:port of the connection followed
Conn == LocalAddr \o <<":">> \o Port443 \o <<"-">> \o RemoteAddr \o <<":">> \o Port443

\* the four documented descriptor shapes
Shapes == {"path/pid/conn", "path/pid", "name/pid", "name-pid"}

Names == {NameFirefox, NamePython3, NameGnomeShell}

Descriptor(shape, name) ==
    CASE shape = "path/pid/conn" -> DirUsrBin \o name \o <<"/">> \o Pid4821 \o <<"/">> \o Conn
      [] shape = "path/pid" -> DirUsrBin \o name \o <<"/">> \o Pid4821
      [] shape = "name/pid" -> name \o <<"/">> \o Pid4821
      [] shape = "name-pid" -> name \o <<"-">> \o Pid4821

\* a line as readline() returns it
LineOf(desc, f1, f2) == desc \o <<"\t">> \o f1 \o <<"\t">> \o f2 \o <<"\n">>

FieldPairs == {<<Field10, Field20>>, <<Field05, Field7>>}

\* the lines that carry a sample
SampleInputs ==
    {[line |-> LineOf(Descriptor(sh, nm), f[1], f[2]), shape |-> sh, name |-> nm,
      remote |-> IF sh = "path/pid/conn" THEN RemoteAddr ELSE <<>>] :
        sh \in Shapes, nm \in Names, f \in FieldPairs}

\* empty and whitespace-only lines, the refresh marker, lines with fewer than 3
\* fields, lines whose byte fields are no numbers
JunkLines ==
    {<<>>, <<"\n">>, LineBlank, LineRefreshing \o <<"\n">>, LineOneField \o <<"\n">>,
     LineTwoFields \o <<"\n">>, LineTwoFields \o <<"\t", "\n">>,
     LineOf(LineOneField, FieldNoNumber, Field20), LineOf(LineOneField, Field10, FieldNoNumber),
     LineOf(LineOneField, FieldComma, Field20), LineOf(LineOneField, <<>>, Field20),
     LineOf(Descriptor("path/pid/conn", NameFirefox), Field10, FieldNoNumber)}

JunkInputs == {[line |-> l, shape |-> "junk", name |-> <<>>, remote |-> <<>>] : l \in JunkLines}

\* line = line.strip(); if not line or line.startswith('Refreshing'): skip
ParseStrip ==
    /\ parse_pc = "strip"
    /\ parse_line' = StrStrip(parse_line)
    /\ IF parse_line' = <<>> \/ StartsWith(parse_line', StrRefreshing)
       THEN parse_pc' = "returned" /\ parse_out' = SkipResult
       ELSE parse_pc' = "split" /\ UNCHANGED parse_out
    /\ UNCHANGED <<parse_in, parse_parts, parse_num, exceptParse>>

\* parts = line.split('\t'); if len(parts) < 3: skip
ParseSplit ==
    /\ parse_pc = "split"
    /\ parse_parts' = StrSplit(parse_line, "\t")
    /\ IF Len(parse_parts') < 3
       THEN parse_pc' = "returned" /\ parse_out' = SkipResult
       ELSE parse_pc' = "convert" /\ UNCHANGED parse_out
    /\ UNCHANGED <<parse_in, parse_line, parse_num, exceptParse>>

\* sent = float(parts[1]) * 1024; recv = float(parts[2]) * 1024, or ValueError
ParseConvert ==
    /\ parse_pc = "convert"
    /\ IF FloatParses(parse_parts[2]) /\ FloatParses(parse_parts[3])
       THEN /\ parse_num' = <<Times1024(parse_parts[2]), Times1024(parse_parts[3])>>
            /\ parse_pc' = "extract"
       ELSE /\ parse_pc' = "except"
            /\ UNCHANGED parse_num
    /\ UNCHANGED <<parse_in, parse_line, parse_parts, parse_out, exceptParse>>

\* app_name = validate_app_name(extract_app_name(prog_info)); remote_ip =
\* extract_remote_ip(prog_info); return app_name, remote_ip, sent, recv
ParseExtract ==
    /\ parse_pc = "extract"
    /\ parse_out' = [app |-> ValidateAppName(ExtractAppName(parse_parts[1])),
                     ip |-> ExtractRemoteIp(parse_parts[1]),
                     sent |-> parse_num[1], recv |-> parse_num[2]]
    /\ parse_pc' = "returned"
    /\ UNCHANGED <<parse_in, parse_line, parse_parts, parse_num, exceptParse>>

\* where control goes on ValueError / IndexError: the except clause
OnParseError_Propagates == [pc |-> "raised", out |-> parse_out]

OnParseError == [pc |-> "returned", out |-> SkipResult]

\* except (ValueError, IndexError): logger.debug(...); return None, None, 0, 0
ParseError ==
    /\ parse_pc = "except"
    /\ parse_pc' = OnParseError.pc
    /\ parse_out' = OnParseError.out
    /\ UNCHANGED <<parse_in, parse_line, parse_parts, parse_num, exceptParse>>

\* parse_nethogs_line is called on a line of the sampling process
ParseInit ==
    /\ BesideParse
    /\ parse_pc = "strip"
    /\ parse_in \in SampleInputs \cup JunkInputs
    /\ parse_line = parse_in.line
    /\ parse_parts = <<>>
    /\ parse_num = <<Zero, Zero>>
    /\ parse_out = SkipResult

ParseNext ==
    \/ ParseStrip
    \/ ParseSplit
    \/ ParseConvert
    \/ ParseExtract
    \/ ParseError

ParseSpec == ParseInit /\ [][ParseNext]_vars

\* ---------------------------------------------------------------------
\* NethogsCollector.stop followed signal by signal (collector.py:90-102)

\* Popen.send_signal (Python >= 3.9): poll() first, os.kill only while the
\* process has not been seen to exit
SendsSignal(proc) == proc = "running"

\* self._process.kill() is followed by self._process.wait()
AfterKill_NoWait == "returned"

AfterKill == "wait_killed"

\* if self._process and self._process.poll() is None
TermPoll ==
    /\ term_pc = "poll"
    /\ term_pc' = IF term_proc = "running" THEN "terminate" ELSE "returned"
    /\ UNCHANGED <<term_proc, term_waited, term_calls, term_sent, exceptTerm>>

\* self._process.terminate()
TermTerminate ==
    /\ term_pc = "terminate"
    /\ term_sent' = IF SendsSignal(term_proc)
                    THEN Append(term_sent, [sig |-> "SIGTERM", call |-> term_calls,
                                            alive |-> term_proc = "running", waited |-> 0])
                    ELSE term_sent
    /\ term_waited' = 0
    /\ term_pc' = "wait"
    /\ UNCHANGED <<term_proc, term_calls, exceptTerm>>

\* self._process.wait(timeout=5): a second passes with the process running
TermWaitSecond ==
    /\ term_pc = "wait"
    /\ term_proc = "running"
    /\ term_waited < GraceSeconds
    /\ term_waited' = term_waited + 1
    /\ UNCHANGED <<term_pc, term_proc, term_calls, term_sent, exceptTerm>>

\* self._process.wait(timeout=5) returns: the process has exited
TermWaitReturns ==
    /\ term_pc = "wait"
    /\ term_proc = "exited"
    /\ term_pc' = "returned"
    /\ UNCHANGED <<term_proc, term_waited, term_calls, term_sent, exceptTerm>>

\* self._process.wait(timeout=5) raises subprocess.TimeoutExpired
TermTimeoutExpired ==
    /\ term_pc = "wait"
    /\ term_proc = "running"
    /\ term_waited = GraceSeconds
    /\ term_pc' = "kill"
    /\ UNCHANGED <<term_proc, term_waited, term_calls, term_sent, exceptTerm>>

\* except subprocess.TimeoutExpired: self._process.kill()
TermKill ==
    /\ term_pc = "kill"
    /\ term_sent' = IF SendsSignal(term_proc)
                    THEN Append(term_sent, [sig |-> "SIGKILL", call |-> term_calls,
                                            alive |-> term_proc = "running",
                                            waited |-> term_waited])
                    ELSE term_sent
    /\ term_pc' = AfterKill
    /\ UNCHANGED <<term_proc, term_waited, term_calls, exceptTerm>>

\* self._process.wait() returns: the process has exited
TermWaitKilled ==
    /\ term_pc = "wait_killed"
    /\ term_proc = "exited"
    /\ term_pc' = "returned"
    /\ UNCHANGED <<term_proc, term_waited, term_calls, term_sent, exceptTerm>>

\* the sampling process exits: on its own, on SIGTERM or on SIGKILL (it may
\* also ignore SIGTERM and stay)
TermProcessExits ==
    /\ term_proc = "running"
    /\ term_proc' = "exited"
    /\ UNCHANGED <<term_pc, term_waited, term_calls, term_sent, exceptTerm>>

\* stop() is called, for the first time or again (cli.py calls it in finally
\* clauses, run_daemon after its loop)
TermCall ==
    /\ term_pc \in {"idle", "returned"}
    /\ term_calls < MaxStopCalls
    /\ term_calls' = term_calls + 1
    /\ term_pc' = "poll"
    /\ UNCHANGED <<term_proc, term_waited, term_sent, exceptTerm>>

\* collector.start() between two calls of stop(): a new sampling process
TermStart ==
    /\ term_pc \in {"idle", "returned"}
    /\ term_proc # "running"
    /\ term_calls < MaxStopCalls
    /\ term_proc' = "running"
    /\ term_pc' = "idle"
    /\ UNCHANGED <<term_waited, term_calls, term_sent, exceptTerm>>

TermInit == BesideTerm /\ TermIdle

TermNext ==
    \/ TermCall
    \/ TermStart
    \/ TermPoll
    \/ TermTerminate
    \/ TermWaitSecond
    \/ TermWaitReturns
    \/ TermTimeoutExpired
    \/ TermKill
    \/ TermWaitKilled
    \/ TermProcessExits

TermSpec == TermInit /\ [][TermNext]_vars

\* ---------------------------------------------------------------------
\* save_traffic: the split of one entry over its IPs (database.py:131-151),
\* with the float totals the Buffer holds (parser.py:38-39 multiplies floats)

\* int(x) of a non-negative float x given in quarters
IntOf(q) == q \div QuartersPerByte

\* int(x // n) of a non-negative float x given in quarters
FloorDivOf(q, n) == q \div (QuartersPerByte * n)

SplitRow_RemainderToFirst(base, rem, i) == base + (IF i = 0 THEN rem ELSE 0)

\* base + (1 if i < remainder else 0)
SplitRow(base, rem, i) == base + (IF i < rem THEN 1 ELSE 0)

\* an entry with traffic and num_ips observed IPs is reached
SplitCall(sent, recv, n) ==
    /\ split_pc = "idle"
    /\ sent > 0 \/ recv > 0
    /\ split_pc' = "base"
    /\ split_sent' = sent
    /\ split_recv' = recv
    /\ split_n' = n
    /\ UNCHANGED <<split_base, split_rem, split_rows, exceptSplit>>

\* base_sent, base_recv, remainder_sent, remainder_recv
SplitBase ==
    /\ split_pc = "base"
    /\ split_base' = [sent |-> FloorDivOf(split_sent, split_n), recv |-> FloorDivOf(split_recv, split_n)]
    /\ split_rem' = [sent |-> IntOf(split_sent) - (split_base'.sent * split_n),
                     recv |-> IntOf(split_recv) - (split_base'.recv * split_n)]
    /\ split_pc' = "rows"
    /\ UNCHANGED <<split_sent, split_recv, split_n, split_rows, exceptSplit>>

\* for i, ip in enumerate(ips): one INSERT
SplitInsert ==
    /\ split_pc = "rows"
    /\ Len(split_rows) < split_n
    /\ split_rows' = Append(split_rows,
                            [sent |-> SplitRow(split_base.sent, split_rem.sent, Len(split_rows)),
                             recv |-> SplitRow(split_base.recv, split_rem.recv, Len(split_rows))])
    /\ UNCHANGED <<split_pc, split_sent, split_recv, split_n, split_base, split_rem, exceptSplit>>

\* the loop over the IPs is over
SplitDone ==
    /\ split_pc = "rows"
    /\ Len(split_rows) = split_n
    /\ split_pc' = "done"
    /\ UNCHANGED <<split_sent, split_recv, split_n, split_base, split_rem, split_rows, exceptSplit>>

SplitInit == BesideSplit /\ SplitIdle

SplitNext ==
    \/ \E sent, recv \in 0..(QuartersPerByte * MaxSplitBytes), n \in 1..MaxSplitIps : SplitCall(sent, recv, n)
    \/ SplitBase
    \/ SplitInsert
    \/ SplitDone

SplitSpec == SplitInit /\ [][SplitNext]_vars

\* ---------------------------------------------------------------------
\* WebhookSender.send followed with the answers of the endpoint
\* (webhook.py:47-98; httpx >= 0.25 as setup.py requires, client built at
\* line 44 without follow_redirects)

\* httpx.Response.is_success: 200 <= status_code <= 299
IsSuccess(code) == 200 <= code /\ code <= 299

\* the POST got no response: httpx.RequestError (connect error, timeout)
NoResponse == 0

\* what the endpoint may answer to a POST
Answers == {NoResponse, 200, 204, 301, 302, 304, 400, 404, 500, 503}

\* response.raise_for_status() raises httpx.HTTPStatusError for every response
\* that is not is_success (redirects are not followed and raise as well)
PostRaises(answer) == answer = NoResponse \/ ~IsSuccess(answer)

\* for attempt in range(self.max_retries): self.client.post(...)
StatusPost(answer) ==
    /\ status_pc = "post"
    /\ status_attempt < status_max
    /\ status_answers' = Append(status_answers, answer)
    /\ IF PostRaises(answer)
       THEN status_pc' = "except" /\ UNCHANGED status_result
       ELSE status_pc' = "done" /\ status_result' = TRUE
    /\ UNCHANGED <<status_max, status_attempt, exceptStatus>>

\* an except clause has logged the failure: sleep unless this was the last
\* attempt, then the next attempt
StatusRetry ==
    /\ status_pc = "except"
    /\ status_attempt' = status_attempt + 1
    /\ status_pc' = "post"
    /\ UNCHANGED <<status_max, status_answers, status_result, exceptStatus>>

\* the loop is over: logger.error("Failed after ..."); return False
StatusGiveUp ==
    /\ status_pc = "post"
    /\ status_attempt >= status_max
    /\ status_pc' = "done"
    /\ status_result' = FALSE
    /\ UNCHANGED <<status_max, status_attempt, status_answers, exceptStatus>>

\* send(payload) is called on a sender with 1 to 3 attempts
StatusInit ==
    /\ BesideStatus
    /\ status_pc = "post"
    /\ status_max \in 1..DefaultMaxRetries
    /\ status_attempt = 0
    /\ status_answers = <<>>
    /\ status_result = None

StatusNext ==
    \/ \E answer \in Answers : StatusPost(answer)
    \/ StatusRetry
    \/ StatusGiveUp

StatusSpec == StatusInit /\ [][StatusNext]_vars

\* ---------------------------------------------------------------------
\* validate_app_name followed on its own (parser.py:115-142)

\* names passed to validate_app_name, without surrounding whitespace
CoreNames ==
    {<<"1", "2", "3", "4">>,
     <<"1", "0", ".", "0", ".", "0", ".", "5">>,
     <<"1", "0", ".", "0", ".", "0", ".", "5", ":", "8", "0", "-">>,
     <<"u", "n", "k", "n", "o", "w", "n">>,
     <<"T", "C", "P">>,
     <<"U", "D", "P">>,
     <<"f", "i", "r", "e", "f", "o", "x">>,
     <<"p", "y", "t", "h", "o", "n", "3">>,
     <<"g", "n", "o", "m", "e", "-", "s", "h", "e", "l", "l">>,
     <<"1", "0", ".", "0", ".", "0", ".", "5", "a", "b", "c">>,
     <<"1", ".", "2", ".", "3">>,
     <<"9", "9", "9", ".", "1", ".", "1", ".", "1">>,
     <<"t", "c", "p">>,
     <<"1", "2", "a">>,
     <<"1", "0", ".", "0", ".", "0", ".", "5", ":", "8", "0", "-", "1", "0", ".", "0", ".", "0", ".", "1", ":", "2", "2">>,
     <<"0">>,
     <<"a", " ", "b">>,
     <<"x">>}

\* whitespace around a name
Paddings == {<<>>, <<" ">>, <<"\n">>}

\* the arguments followed: no name, whitespace only, and every name of CoreNames
\* with and without whitespace around it
ValidNames ==
    {<<>>, <<" ">>, <<"\t", "\n">>} \cup {p \o c \o r : p \in {<<>>, <<" ">>}, c \in CoreNames, r \in Paddings}

\* validate_app_name(app_name) is called
ValidCall(name) ==
    /\ valid_pc = "idle"
    /\ valid_pc' = "called"
    /\ valid_in' = name
    /\ UNCHANGED <<valid_out, exceptValid>>

\* the call returns
ValidReturn ==
    /\ valid_pc = "called"
    /\ valid_pc' = "returned"
    /\ valid_out' = ValidateAppName(valid_in)
    /\ UNCHANGED <<valid_in, exceptValid>>

ValidInit == BesideValid /\ ValidIdle

ValidNext ==
    \/ \E name \in ValidNames : ValidCall(name)
    \/ ValidReturn

ValidSpec == ValidInit /\ [][ValidNext]_vars

\* ------------------------------------------------------ TrafficBuffer: claims
AddsOf(a) == {i \in 1..Len(adds) : adds[i].app = a}

FlushedSent(f, a) == IF a \in DOMAIN f THEN f[a].sent ELSE 0
FlushedRecv(f, a) == IF a \in DOMAIN f THEN f[a].recv ELSE 0

\* the add() call numbered i has returned
Returned(i) == \A t \in Adders : add_arg[t] # i

\* the map m holds the sent / recv / ip of the add() call numbered i
InSent(m, i) == \E a \in DOMAIN m : i \in m[a].hs
InRecv(m, i) == \E a \in DOMAIN m : i \in m[a].hr
InIps(m, i) == \E a \in DOMAIN m : i \in m[a].hi

\* the flush results that hold (any part of) the add() call numbered i
FlushesWith(i) ==
    {k \in 1..Len(flushes) : InSent(flushes[k], i) \/ InRecv(flushes[k], i) \/ InIps(flushes[k], i)}

\* the map a flush() in progress has taken out of the buffer and not yet returned
PendingFlush == IF fl_pc = "ret" THEN fl_copy ELSE EmptyMap

\* the map m holds the add() call numbered i wholly, under its app
Wholly(m, i) ==
    LET a == adds[i].app IN
    /\ a \in DOMAIN m
    /\ i \in m[a].hs /\ i \in m[a].hr
    /\ adds[i].ip # None => (i \in m[a].hi /\ adds[i].ip \in m[a].ips)

\* the numbers of an entry are those of the adds recorded in it
EntrySound(e) ==
    /\ e.sent = SumSent(e.hs)
    /\ e.recv = SumRecv(e.hr)
    /\ e.ips = {adds[i].ip : i \in e.hi}

\* C1: once every add() has returned and one flush() that followed them has
\* returned (a single flush, the buffer empty behind it), the flushed sent and
\* recv totals of each app are the exact sums of the amounts added for that app.
C1_FlushedTotalsAreExactSums ==
    ( /\ \A t \in Adders : add_pc[t] = "idle"
      /\ fl_pc = "idle"
      /\ Len(flushes) = 1
      /\ buf_data = EmptyMap )
    => \A a \in Apps :
          /\ FlushedSent(flushes[1], a) = SumSent(AddsOf(a))
          /\ FlushedRecv(flushes[1], a) = SumRecv(AddsOf(a))

\* two adds for one app, issued by two threads, then the one flush
C1_Witness ==
    /\ \A t \in Adders : add_pc[t] = "idle"
    /\ fl_pc = "idle"
    /\ Len(flushes) = 1
    /\ buf_data = EmptyMap
    /\ \E a \in Apps : Cardinality(AddsOf(a)) >= 2 /\ FlushedSent(flushes[1], a) >= 2

\* C2: every add lands wholly in exactly one flush result: a flush result holds
\* an add's sent, recv and ip together or none of them; no add is in two flush
\* results; and an add that has returned is in exactly one of the flush results,
\* the flush in progress, or (not yet flushed) the buffer.
C2_EveryAddWhollyInOneFlush ==
    /\ \A k \in 1..Len(flushes) :
          /\ \A a \in DOMAIN flushes[k] : EntrySound(flushes[k][a])
          /\ \A i \in 1..Len(adds) : k \in FlushesWith(i) => Wholly(flushes[k], i)
    /\ \A i \in 1..Len(adds) :
          /\ Cardinality(FlushesWith(i)) <= 1
          /\ Returned(i) =>
                \/ Cardinality(FlushesWith(i)) = 1
                     /\ ~InSent(buf_data, i) /\ ~InSent(PendingFlush, i)
                \/ FlushesWith(i) = {}
                     /\ (Wholly(buf_data, i) \/ Wholly(PendingFlush, i))

\* two adds for one app landed in two different flushes, the first with its ip
C2_Witness ==
    /\ Len(flushes) >= 2
    /\ \E i, j \in 1..Len(adds) :
          /\ i # j /\ adds[i].app = adds[j].app /\ adds[i].ip # None
          /\ Wholly(flushes[1], i) /\ Wholly(flushes[2], j)

\* ------------------------------------------------------ run_daemon: claims
\* the tick history fields: tick.pd / tick.rd / tick.wd / tick.hd say what the
\* tick found dead when it began (the process; the Reader, Writer, Webhook
\* worker, as the number of such threads started until then, else -1),
\* tick.log the restart steps it has done, tick.raised where it raised.

\* the positions of the main thread inside the supervisory loop
LoopPcs == {"loop", "sleep", "restart", "refresh", "reader", "chk_reader", "chk_writer",
            "chk_webhook", "wait", "except"}

\* every worker thread has ended by itself (none was killed by the exit)
WorkersStopped ==
    /\ \A r \in 1..Len(readers) : readers[r].pc = "dead"
    /\ writer_pc = "dead"
    /\ webhook_pc = "dead"

\* C3: once the shutdown signal is set and the daemon and its tasks have
\* stopped (each worker has left its loop by itself, the Writer after its
\* final flush-and-persist), every sample Buffer.add accepted has been handed
\* to save_traffic and none remains in the Buffer.
C3_NoBufferedDataDropped ==
    (main_pc = "exited" /\ shutdown_event /\ WorkersStopped)
    => /\ buf_data = EmptyMap
       /\ \A i \in 1..Len(adds) : i \in handed

\* C5: a tick that began with the Reader terminated (shutdown unset) and ran
\* to its end has started a Reader, and no further one unless the one it
\* started has itself terminated; no Reader is started once shutdown is set.
C5_TickRestartsOneReader ==
    (main_pc = "wait" /\ tick.rd # -1)
    => /\ Len(readers) > tick.rd
       /\ \A k \in (tick.rd + 1)..(Len(readers) - 1) : readers[k].pc = "dead"

C5_ExactlyOneReaderRestart ==
    /\ []C5_TickRestartsOneReader
    /\ [][Len(readers') > Len(readers) => ~shutdown_event /\ Len(readers') = Len(readers) + 1]_vars

\* a tick found the Reader terminated and ends with exactly one new Reader, alive
C5_Witness ==
    /\ main_pc = "wait" /\ tick.rd # -1 /\ ~shutdown_event
    /\ Len(readers) = tick.rd + 1
    /\ readers[Len(readers)].pc # "dead"
    /\ process = "running"

RestartOrder == <<"wait", "start", "refresh", "reader">>

IsPrefix(s, t) == Len(s) <= Len(t) /\ \A k \in 1..Len(s) : s[k] = t[k]

\* C6 (order): the restart steps of a tick are done in the order wait, start
\* process, refresh excluded IPs, start Reader; a tick that found the process
\* dead has done all four when it goes on to the thread checks.
C6_RestartInOrder ==
    /\ IsPrefix(tick.log, RestartOrder)
    /\ main_pc \in {"chk_reader", "chk_writer", "chk_webhook", "wait"}
          => tick.log = IF tick.pd THEN RestartOrder ELSE <<>>
    /\ main_pc = "sleep" => tick.pd /\ tick.log = <<>>

\* C6: ... and (the main thread running on, the failures of a restart being
\* transient) a dead sampling process is eventually running again with a live
\* Reader, unless a termination request has arrived.
C6_DeadProcessRestarted ==
    /\ []C6_RestartInOrder
    /\ (process = "exited" /\ main_pc \in LoopPcs)
          ~> ((process = "running" /\ Len(readers) > 0 /\ readers[Len(readers)].pc # "dead")
               \/ kill_now)

\* the tick has restarted the process, refreshed, started a Reader: both are up
C6_Witness ==
    /\ main_pc = "chk_reader"
    /\ tick.pd /\ tick.log = RestartOrder
    /\ process = "running"
    /\ readers[Len(readers)].pc # "dead"
    /\ ~kill_now

\* C7: in every tick (shutdown unset), a Writer or Webhook worker that was
\* dead when the tick began has been restarted when the tick ends, whatever
\* the restart of the sampling process or of the Reader did in that tick
\* (a failure of the worker's own restart apart).
C7_RestartsNeverCascade ==
    main_pc \in {"wait", "except"}
    => /\ (tick.wd # -1 /\ tick.raised # "chk_writer") => writer_starts > tick.wd
       /\ (tick.hd # -1 /\ tick.raised \notin {"chk_writer", "chk_webhook"})
             => webhook_starts > tick.hd

\* C8: the restart of a Reader, Writer or Webhook worker by its check replaces
\* a dead thread only, and leaves the sampling process, the other workers and
\* every Reader thread already started as they are.
C8_RestartLeavesOthersUntouched ==
    [][ /\ (main_pc = "chk_reader" /\ Len(readers') > Len(readers))
            => /\ readers[Len(readers)].pc = "dead"
               /\ SubSeq(readers', 1, Len(readers)) = readers
               /\ UNCHANGED <<process, writer_pc, writer_starts, webhook_pc, webhook_starts>>
        /\ (main_pc = "chk_writer" /\ writer_starts' # writer_starts)
            => /\ writer_pc = "dead"
               /\ UNCHANGED <<process, readers, webhook_pc, webhook_starts>>
        /\ (main_pc = "chk_webhook" /\ webhook_starts' # webhook_starts)
            => /\ webhook_pc = "dead"
               /\ UNCHANGED <<process, readers, writer_pc, writer_starts>>
      ]_vars

\* the Writer has just been restarted; the first Reader and Webhook worker live on
C8_Witness ==
    /\ main_pc = "chk_webhook"
    /\ tick.wd # -1 /\ writer_starts = tick.wd + 1 /\ writer_pc # "dead"
    /\ Len(readers) = 1 /\ readers[1].pc # "dead"
    /\ webhook_starts = 1 /\ webhook_pc = "run"
    /\ process = "running"

\* C9: an exception raised in a tick takes the main thread to the handler of
\* the loop, from where the loop goes on; the main thread leaves the loop only
\* at the loop test, with kill_now or the shutdown signal set.
C9_LoopToleratesExceptions ==
    [][ /\ env'.faults > env.faults => main_pc \in LoopPcs /\ main_pc' = "except"
        /\ main_pc = "except" => main_pc' \in {"except", "loop"}
        /\ (main_pc \in LoopPcs /\ main_pc' \notin LoopPcs)
            => (main_pc = "loop" /\ main_pc' = "stop" /\ (kill_now \/ shutdown_event))
      ]_vars

\* after an exception in a tick, a later tick has run to its end
C9_Witness ==
    /\ env.faults > 0
    /\ main_pc = "wait"
    /\ tick.raised = None
    /\ ~kill_now

\* C10: the shutdown path runs only after a termination request, and in the
\* order: set the shutdown signal, terminate the sampling process, clear the
\* marker, exit; the marker once written is never cleared while the sampling
\* process is running.
C10_OrderlyShutdown ==
    /\ main_pc \in {"stop", "terminate", "cleanup", "return", "exited"} => kill_now
    /\ main_pc \in {"terminate", "cleanup", "return", "exited"} => shutdown_event
    /\ main_pc \in {"cleanup", "return", "exited"} => process # "running"
    /\ main_pc \in {"return", "exited"} => pid_file = NoPid
    /\ (pid_file = NoPid /\ main_pc # "write_pid")
          => shutdown_event /\ process # "running" /\ main_pc \in {"return", "exited"}

\* the daemon has exited on a termination request; stop() ended the process
C10_Witness ==
    /\ main_pc = "exited" /\ kill_now
    /\ pid_file = NoPid
    /\ process = "exited" /\ env.deaths = 0

\* ------------------------------------------------- netmon start / stop: claims
\* the daemon instances: processes inside run_daemon that have written the marker
LiveDaemons == {p \in Procs : cmd_pc[p] \in {"start_nethogs", "loop", "cleanup_pid"}}

\* C4: at most one daemon instance is live at any time, for every interleaving
\* of start commands, stop commands and daemon exits.
C4_AtMostOneLiveDaemon == Cardinality(LiveDaemons) <= 1

\* ------------------------------------------------------- cancellation: claims
\* C11: once the shutdown signal is set the Reader, the Writer and the Webhook
\* worker each leave their loop and terminate: the Writer does no regular
\* flush under a set signal (only its final flush), and when the daemon has
\* exited every worker has left its loop by itself.
C11_WorkersObserveShutdown ==
    /\ [][(writer_pc = "flush" /\ writer_pc' \in {"save", "wait"}) => ~shutdown_event]_vars
    /\ [](main_pc = "exited" => WorkersStopped)

\* ------------------------------------------------------ save_traffic: claims
\* the committed rows of an app, in insertion order
RowsOf(app) == SelectSeq(db_traffic, LAMBDA r : r.app = app)

RECURSIVE SumRowsSent(_)
SumRowsSent(rows) == IF rows = <<>> THEN 0 ELSE Head(rows).sent + SumRowsSent(Tail(rows))

RECURSIVE SumRowsRecv(_)
SumRowsRecv(rows) == IF rows = <<>> THEN 0 ELSE Head(rows).recv + SumRowsRecv(Tail(rows))

\* C12: for an app flushed with totals (S, R) and N >= 1 observed remote IPs,
\* the rows save_traffic has persisted have bytes_sent summing to exactly S
\* and bytes_recv summing to exactly R.
C12_SplitPreservesTotals ==
    save_pc = "done" =>
        \A app \in DOMAIN save_data :
            save_data[app].ips # {} =>
                /\ SumRowsSent(RowsOf(app)) = save_data[app].sent
                /\ SumRowsRecv(RowsOf(app)) = save_data[app].recv

\* a batch was saved in which an app's totals do not divide evenly by its IPs
C12_Witness ==
    /\ save_pc = "done"
    /\ \E app \in DOMAIN save_data :
          /\ Cardinality(save_data[app].ips) = 2
          /\ save_data[app].sent = 3
          /\ save_data[app].recv = 1
          /\ Len(RowsOf(app)) = 2

\* the remote_ip values of a sequence of rows
RowIps(rows) == {rows[i].ip : i \in 1..Len(rows)}

\* C13: for every flushed entry the number of rows persisted is zero when its
\* sent and recv are both zero, exactly one row with a null remote IP when
\* it has traffic and no remote IP was observed, and exactly one row per
\* observed remote IP otherwise.
C13_RowsPerEntry ==
    save_pc = "done" =>
        \A app \in DOMAIN save_data :
            LET e == save_data[app]
                rows == RowsOf(app)
            IN  IF e.sent = 0 /\ e.recv = 0 THEN rows = <<>>
                ELSE IF e.ips = {} THEN Len(rows) = 1 /\ rows[1].ip = None
                ELSE /\ Len(rows) = Cardinality(e.ips)
                     /\ RowIps(rows) = e.ips

\* a saved batch with an entry with recv only and no IP (one row) and a
\* zero-traffic entry holding IPs (no row)
C13_Witness ==
    /\ save_pc = "done"
    /\ \E a, b \in DOMAIN save_data :
          /\ a # b
          /\ save_data[a].sent = 0 /\ save_data[a].recv = 1 /\ save_data[a].ips = {}
          /\ Len(RowsOf(a)) = 1
          /\ save_data[b].sent = 0 /\ save_data[b].recv = 0 /\ save_data[b].ips # {}
          /\ RowsOf(b) = <<>>

\* ------------------------------------------------------- Reader filter: claims
\* the Reader r parses a line in this step
ParsesLine(r) == readers[r].pc = "read" /\ env.lines' = env.lines + 1

\* C14: a parsed sample whose remote IP is in the Reader's ExcludedIPSet is
\* never added to the Buffer; every other parsed sample, including one with no
\* remote IP, is forwarded to Buffer.add exactly once: the Buffer grows only
\* by the Reader adding the sample it holds, which it then holds no longer.
C14_ExcludedNeverAddedOthersOnce ==
    /\ [][\A r \in 1..Len(readers) :
            ParsesLine(r) =>
                LET s == readers'[r].sample
                IN  IF s.app = None \/ (s.ip # None /\ s.ip \in excluded_ips)
                    THEN readers'[r].pc = "top" /\ adds' = adds /\ buf_data' = buf_data
                    ELSE readers'[r].pc = "add" /\ adds' = adds]_vars
    /\ [][\A r \in 1..Len(readers) :
            (readers[r].pc = "add" /\ readers'[r].pc \notin {"add", "killed"}) =>
                /\ readers'[r].pc = "top"
                /\ adds' = Append(adds, readers[r].sample)
                /\ readers'[r].sample = NoSample]_vars
    /\ [][adds' # adds =>
            \E r \in 1..Len(readers) :
                /\ readers[r].pc = "add" /\ readers'[r].pc = "top"
                /\ adds' = Append(adds, readers[r].sample)]_vars

\* one sample without remote IP was added and one with an excluded IP dropped
C14_Witness ==
    /\ Len(adds) = 1
    /\ adds[1].ip = None
    /\ \E r \in 1..Len(readers) :
          /\ readers[r].pc = "top"
          /\ readers[r].sample.ip = "ip1"
          /\ "ip1" \in excluded_ips

\* ------------------------------------------------- Reader end of stream: claims
\* C15: on no data within the poll timeout the Reader keeps polling, and
\* whenever it observes that the output channel is closed (end of stream) it
\* terminates, so that the supervisor sees a dead Reader.
C15_EndOfStreamEndsReader ==
    [][\A r \in 1..Len(readers) :
          (readers[r].pc = "read" /\ readers'[r].pc # "read") =>
              IF process = "running"
              THEN readers'[r].pc \in {"top", "add", "killed"}
              ELSE readers'[r].pc \in {"dead", "killed"}]_vars

\* ---------------------------------------------------- Collector.stop: claims
\* C16: stop() is idempotent: whenever it has returned, in any state it was
\* called in and however many times it was called before, the shutdown signal
\* is set and the sampling process is not running, and the state it leaves is
\* the state its first call left; it raises no error.
C16_StopIdempotent ==
    main_pc = "cleanup" =>
        /\ shutdown_event
        /\ ~PollIsNone
        /\ \A i \in 1..Len(stop_seen) : stop_seen[i] = <<shutdown_event, process>>

\* stop() has returned three times on a collector whose process it terminated
C16_Witness ==
    /\ main_pc = "cleanup"
    /\ Len(stop_seen) = 2
    /\ process = "exited"
    /\ env.deaths = 0

\* stop() has returned twice on a collector that was never started
C16_WitnessNeverStarted ==
    /\ main_pc = "cleanup"
    /\ Len(stop_seen) = 1
    /\ process = None

\* ------------------------------------------------- WebhookSender.send: claims
\* the positions of the POST attempts in the log
PostsAt == {i \in 1..Len(send_log) : send_log[i] # "sleep"}

\* C17: send issues at most max_retries POST attempts per call, stops at the
\* first successful attempt, returns true iff some attempt succeeded, and
\* sleeps the retry delay only between a failed attempt and the next attempt
\* (never after a success and never after the last attempt).
C17_BoundedRetries ==
    /\ Cardinality(PostsAt) <= send_max
    /\ \A i \in 1..Len(send_log) : send_log[i] = "ok" => i = Len(send_log)
    /\ \A i \in 1..Len(send_log) :
          send_log[i] = "sleep" =>
              /\ i > 1 /\ send_log[i - 1] \notin {"ok", "sleep"}
              /\ i < Len(send_log) => send_log[i + 1] # "sleep"
    /\ send_pc = "done" =>
          /\ send_result = (\E i \in PostsAt : send_log[i] = "ok")
          /\ send_log # <<>> => send_log[Len(send_log)] # "sleep"
          /\ send_result = FALSE => Cardinality(PostsAt) = send_max

\* a call that failed twice, slept twice and succeeded on the third attempt
C17_Witness ==
    /\ send_pc = "done"
    /\ send_max = 3
    /\ send_result = TRUE
    /\ Len(send_log) = 5

\* ------------------------------------------------------ Webhook worker: claims
\* C18: while the webhook is enabled and configured, at each worker wake-up a
\* send is issued iff last_sent is unset or the time elapsed since last_sent
\* is at least the configured interval (interval 30 min: last_sent 10 minutes
\* ago yields no send, 31 minutes ago yields a send); a send is entered only
\* from such a wake-up.
C18_SendIffDue ==
    /\ [][(hook_pc = "top" /\ hook_pc' # "top" /\ Configured(hook_cfg)) =>
            IF hook_cfg.last_sent = NoTime \/ hook_now - hook_cfg.last_sent >= hook_cfg.interval
            THEN hook_pc' = "send"
            ELSE hook_pc' = "wait60"]_vars
    /\ [][(hook_pc = "send" /\ hook_pc' # "send" /\ Configured(hook_cfg)) =>
            hook_pc' = "sending" /\ send_pc' = "loop"]_vars
    /\ [][(hook_pc' = "send" /\ hook_pc # "send") => hook_pc = "top"]_vars
    /\ [](hook_pc = "sending" /\ send_pc = "post" =>
            hook_cfg.last_sent = NoTime \/ hook_now - hook_cfg.last_sent >= hook_cfg.interval)

\* interval 30 min and last_sent 31 minutes ago: the POST is being issued
C18_Witness ==
    /\ hook_cfg.interval = 30
    /\ hook_cfg.last_sent = 0
    /\ hook_now = 31
    /\ hook_pc = "sending"
    /\ send_pc = "post"

\* interval 30 min and last_sent 10 minutes ago: the worker waits, nothing sent
C18_WitnessNotDue ==
    /\ hook_cfg.interval = 30
    /\ hook_cfg.last_sent = 21
    /\ hook_now = 31
    /\ Configured(hook_cfg)
    /\ hook_pc = "wait60"
    /\ hook_sent = <<>>

C20_NoResendBeforeNextInterval ==
    /\ [][(hook_sent' # hook_sent /\ ~hook_sent'[Len(hook_sent')].ok) =>
            /\ hook_log' # <<>> /\ hook_log'[Len(hook_log')] = "error"
            /\ Len(hook_log') <= LogCap]_vars
    /\ [](\A i \in 1..Len(hook_sent) :
            ~hook_sent[i].ok =>
                /\ \A j \in (i + 1)..Len(hook_sent) :
                      hook_sent[j].t - hook_sent[i].t >= hook_cfg.interval
                /\ hook_pc \in {"send", "sending"} =>
                      hook_now - hook_sent[i].t >= hook_cfg.interval)

\* ------------------------------------------- Webhook worker: disabled webhook
\* the store holds no webhook_config row, or a disabled one, or one without url
Unconfigured == ~hook_cfg.exists \/ ~hook_cfg.enabled \/ ~hook_cfg.url

\* a POST is issued, a webhook_logs row written or last_sent changed by the step
DeliveryEffect ==
    \/ send_log' # send_log
    \/ hook_log' # hook_log
    \/ hook_sent' # hook_sent
    \/ hook_cfg'.last_sent # hook_cfg.last_sent

C22_LogHoldsNewestHundred ==
    /\ [][log_appended' # log_appended =>
            /\ log_appended' = log_appended + 1
            /\ \E r \in log_rows' : r.id = log_appended' /\ r \notin log_rows]_vars
    /\ [](Cardinality(log_rows) <= LogCap)
    /\ []({r.id : r \in log_rows} = {i \in 1..log_appended : i > log_appended - LogCap})

\* ------------------------------------------------------ report period: claims
\* C23: send_webhook resolves the report period from the interval in minutes
\* for every integer interval: interval <= 60 gives hourly, 60 < interval <=
\* 1440 daily, 1440 < interval <= 10080 weekly, anything larger monthly; and
\* the payload built carries that period.
C23_PeriodFromInterval ==
    /\ per_pc \in {"build", "send", "done"} =>
          /\ per_interval <= 60 => per_period = "hourly"
          /\ 60 < per_interval /\ per_interval <= 1440 => per_period = "daily"
          /\ 1440 < per_interval /\ per_interval <= 10080 => per_period = "weekly"
          /\ 10080 < per_interval => per_period = "monthly"
    /\ per_pc \in {"send", "done"} => per_payload.report_period = per_period

\* an interval of exactly one day: the payload handed to the sender is daily
C23_Witness ==
    /\ per_interval = 1440
    /\ per_pc = "send"
    /\ per_payload.report_period = "daily"

\* ---------------------------------------------------- retention cleanup: claims
\* C24: retention cleanup deletes exactly the traffic rows whose timestamp is
\* older than now minus retention_days and leaves every other traffic row
\* present and unchanged, for any set of stored rows: once the call is over the
\* table holds exactly the rows it held before that are not older than that.
C24_CleanupDeletesExactlyOld ==
    clean_pc \in {"returned", "raised"} =>
        clean_rows = {r \in clean_before : ~(r.ts < clean_now - clean_keep)}

\* -------------------------------------------------------- daily cleanup: claims
\* the time of the previous cleanup, the start of the Writer before the first
PrevCleanup == IF day_log = <<>> THEN day_start ELSE day_log[Len(day_log)]

\* C25: the Writer triggers retention cleanup once per calendar day, decided
\* by comparing calendar dates and not by a fixed-interval timer: a Writer
\* tick triggers a cleanup iff its date differs from the date of the previous
\* cleanup (so the first such tick does), and no date gets more than one cleanup.
C25_CleanupOncePerCalendarDay ==
    /\ [][(day_pc = "check" /\ day_pc' # "check") =>
            (day_pc' = "cleanup" <=> DateOf(day_now) # DateOf(PrevCleanup))]_vars
    /\ [](\A i, j \in 1..Len(day_log) : i < j => DateOf(day_log[i]) # DateOf(day_log[j]))

\* ------------------------------------------------------ liveness marker: claims
\* the marker exists, holds the pid of a command process, and that process has
\* started and has not ended
MarkerNamesLiveProcess ==
    /\ pid_file \in Procs
    /\ cmd_pc[pid_file] \notin {"idle", "refused", "done", "exited"}

C26_WitnessGarbled ==
    /\ pid_file = Garbled
    /\ cmd_pc[2] = "write_pid"

\* ------------------------------------------------- missing executable: claims
\* C27: when the sampling executable is missing, start() raises the
\* tool-missing failure, which is fatal only to that start attempt: the
\* supervisor stays alive (it never exits on it), and retries the start on its
\* next tick.
C27_ToolMissingIsNotFatal ==
    /\ [](main_pc # "exit1")
    /\ [][(tick'.raised = "restart" /\ tick.raised # "restart") => main_pc' = "except"]_vars
    /\ [][(main_pc = "loop" /\ tick.raised = "restart" /\ main_pc' # "loop") =>
            \/ main_pc' = "sleep"
            \/ main_pc' = "stop" /\ (kill_now \/ shutdown_event)]_vars

\* ------------------------------------------------------- failed flush: claims
\* C28: if the persistence call fails for a flush, the error is logged, the
\* Writer keeps running and ticks again, and the data pulled from the Buffer
\* for that flush is neither put back into the Buffer nor retried: each
\* flushed batch is handed to persistence at most once.
C28_FailedFlushIsDropped ==
    /\ [][save_lost' # save_lost =>
            /\ writer_pc = "save" /\ writer_pc' = "wait"
            /\ writer_data' = EmptyMap
            /\ buf_data' = buf_data]_vars
    /\ [](writer_pc \in {"save", "final_save"} => IdsIn(writer_data) \cap handed = {})
    /\ [](save_lost \cap (IdsIn(buf_data) \cup IdsIn(writer_data)) = {})

\* a save has failed, the Writer has ticked again and holds the next batch,
\* which has none of the lost data
C28_Witness ==
    /\ save_lost = {1}
    /\ writer_pc = "save"
    /\ IdsIn(writer_data) = {2}

\* ------------------------------------------------------------- parser: claims
\* the line of the scenario: /usr/bin/firefox/4821/192.168.1.5:443-93.184.216.34:443,
\* fields 1.0 and 2.0
ScenarioLine == LineOf(Descriptor("path/pid/conn", NameFirefox), Field10, Field20)

\* C29: for each of the four documented descriptor shapes parse_nethogs_line
\* returns the executable's name as app and the remote address of the
\* connection pair (none when there is no address) as ip; the line of the
\* scenario yields app firefox, ip 93.184.216.34, sent 1024 and recv 2048.
C29_ParserExtractsAppAndIp ==
    (parse_pc = "returned" /\ parse_in.shape \in Shapes) =>
        /\ parse_out.app = parse_in.name
        /\ parse_out.ip = parse_in.remote
        /\ parse_in.line = ScenarioLine =>
              /\ parse_out.app = NameFirefox
              /\ parse_out.ip = RemoteAddr
              /\ parse_out.sent = [n |-> 1024 * 10, d |-> 10]
              /\ parse_out.recv = [n |-> 2048 * 10, d |-> 10]

\* C30: parse_nethogs_line returns the skip result and never raises for every
\* malformed or irrelevant line: an empty or whitespace-only line, a
\* refresh-marker line, a line with fewer than 3 tab-separated fields, and a
\* line whose byte fields do not parse as numbers.
C30_JunkLinesAreSkipped ==
    /\ parse_pc # "raised"
    /\ (parse_pc = "returned" /\ parse_in.shape = "junk") => parse_out = SkipResult
    /\ ~(parse_in.shape = "junk" /\ parse_pc = "extract")

\* a line with three fields whose last field is no number: float() has raised
\* and the skip result is returned
C30_Witness ==
    /\ parse_in.line = LineOf(LineOneField, Field10, FieldNoNumber)
    /\ Len(parse_parts) = 3
    /\ parse_pc = "returned"
    /\ parse_out = SkipResult

\* ---------------------------------------------------------------------
\* validate_app_name: claims

\* a dotted quad and nothing else, or a dotted quad followed by :port- and nothing else
IsDottedQuad(s) ==
    \E e \in IpEnds(s, 1, 4) :
        \/ e = Len(s) + 1
        \/ At(s, e, ":") /\ \E e2 \in DigitsEnds(s, e + 1) : At(s, e2, "-") /\ e2 = Len(s)

ReservedNames == {StrUnknown, StrTCP, StrUDP}

\* the names of the statement that give 'unknown'
ExamplesUnknown ==
    {<<"1", "2", "3", "4">>, <<"1", "0", ".", "0", ".", "0", ".", "5">>,
     <<"1", "0", ".", "0", ".", "0", ".", "5", ":", "8", "0", "-">>, StrUnknown, StrTCP, <<>>}

ExamplesHold ==
    /\ valid_in \in ExamplesUnknown => valid_out = StrUnknown
    /\ valid_in = NameFirefox => valid_out = NameFirefox

\* C31 as stated: validate_app_name gives 'unknown' for a name that is empty,
\* purely numeric, a dotted quad (optionally followed by :port-) or one of
\* unknown, TCP, UDP, and returns every other name unchanged.
C31_EveryOtherNameUnchanged ==
    valid_pc = "returned" =>
        /\ valid_out = IF \/ valid_in = <<>>
                          \/ IsDigit(valid_in)
                          \/ IsDottedQuad(valid_in)
                          \/ valid_in \in ReservedNames
                       THEN StrUnknown
                       ELSE valid_in
        /\ ExamplesHold

\* C31 amended: validate_app_name trims the whitespace around the name; it
\* gives 'unknown' when the trimmed name is empty, purely numeric, begins with
\* a dotted quad (whatever follows it) or is one of unknown, TCP, UDP, and
\* returns every other name trimmed; a name without surrounding whitespace
\* that is none of these is returned unchanged, and the seven examples give
\* what the statement says.
C31_TrimmedNameValidated ==
    valid_pc = "returned" =>
        LET trimmed == StrStrip(valid_in)
            rejected == \/ trimmed = <<>>
                        \/ IsDigit(trimmed)
                        \/ IpEnds(trimmed, 1, 4) # {}
                        \/ trimmed \in ReservedNames
        IN  /\ valid_out = IF rejected THEN StrUnknown ELSE trimmed
            /\ (~rejected /\ trimmed = valid_in) => valid_out = valid_in
            /\ ExamplesHold

\* a name with whitespace around it has been returned trimmed
C31_Witness ==
    /\ valid_pc = "returned"
    /\ valid_in = <<" ">> \o NameFirefox \o <<"\n">>
    /\ valid_out = NameFirefox

\* ------------------------------------------- WebhookSender.send: answers
\* the attempts that the endpoint answered with a 2xx or 3xx status
AnsweredOk == {i \in 1..Len(status_answers) : 200 <= status_answers[i] /\ status_answers[i] <= 399}

\* C32: a delivery attempt counts as a success iff the endpoint answers with a
\* 2xx or 3xx status: such an answer ends the call with True; a network error
\* or any other status is a failed attempt, followed by another attempt while
\* attempts remain.
C32_SuccessIff2xxOr3xx ==
    /\ \A i \in AnsweredOk : i = Len(status_answers) /\ status_pc = "done" /\ status_result = TRUE
    /\ status_pc = "done" =>
          /\ status_result = (AnsweredOk # {})
          /\ status_result = FALSE => Len(status_answers) = status_max

\* ------------------------------------------------- save_traffic: the split
\* floor(q / (QuartersPerByte * n)): the whole bytes of a total of q quarters
\* divided by n
FloorOf(q, n) ==
    CHOOSE b \in 0..q : QuartersPerByte * n * b <= q /\ q < QuartersPerByte * n * (b + 1)

\* the row that the i-th IP (counted from 1) of n gets of a total
ExpectedShare(q, n, i) ==
    LET base == FloorOf(q, n)
    IN  base + (IF i <= FloorOf(q, 1) - base * n THEN 1 ELSE 0)

\* C33: when an app's aggregate is split across N observed remote IPs, each
\* row gets base = floor(total / N) and the first (total - base*N) IPs in
\* iteration order get one extra unit, for sent and recv independently; any two
\* rows of the entry differ by at most 1 in bytes_sent and by at most 1 in
\* bytes_recv, and no row is negative.
C33_SplitRowsWithinOne ==
    /\ \A i \in 1..Len(split_rows) :
          /\ split_rows[i].sent = ExpectedShare(split_sent, split_n, i)
          /\ split_rows[i].recv = ExpectedShare(split_recv, split_n, i)
          /\ split_rows[i].sent >= 0
          /\ split_rows[i].recv >= 0
    /\ \A i, j \in 1..Len(split_rows) :
          /\ split_rows[i].sent - split_rows[j].sent \in {-1, 0, 1}
          /\ split_rows[i].recv - split_rows[j].recv \in {-1, 0, 1}
    /\ split_pc = "done" => Len(split_rows) = split_n

\* 2.5 bytes sent and 4 received, split over 3 IPs
C33_Witness ==
    /\ split_pc = "done"
    /\ split_sent = 10
    /\ split_recv = 16
    /\ split_rows = <<[sent |-> 1, recv |-> 2], [sent |-> 1, recv |-> 1], [sent |-> 0, recv |-> 1]>>

\* ------------------------------------------------ NethogsCollector.stop: claims
\* C34: stop() always requests graceful termination of a running sampling
\* process first and force-kills it only if it has not exited within the grace
\* period; it never signals a process that has already exited, and it returns
\* only after the process has exited.
C34_GracefulThenForcedStop ==
    /\ \A i \in 1..Len(term_sent) :
          /\ term_sent[i].alive
          /\ term_sent[i].sig = "SIGKILL" =>
                /\ i > 1
                /\ term_sent[i - 1].sig = "SIGTERM"
                /\ term_sent[i - 1].call = term_sent[i].call
                /\ term_sent[i].waited = GraceSeconds
    /\ (term_pc \in {"wait", "kill"} /\ term_proc = "running") =>
          /\ term_sent # <<>>
          /\ term_sent[Len(term_sent)] = [sig |-> "SIGTERM", call |-> term_calls, alive |-> TRUE, waited |-> 0]
    /\ term_pc = "returned" => term_proc # "running"

\* a process that ignored SIGTERM for the whole grace period was killed, and
\* stop() has returned after its exit
C34_Witness ==
    /\ term_pc = "returned"
    /\ term_proc = "exited"
    /\ Len(term_sent) = 2
    /\ term_sent[2].sig = "SIGKILL"

\* ------------------------------------------------------ ExcludedIPSet: claims
\* C35: every Reader start and restart is preceded by loading the
\* ExcludedIPSet from the persistent store, so a Reader filters against the
\* store's contents as of its start; an admin add or remove of an excluded IP
\* while a Reader is running does not change filtering until the next Reader
\* or sampling-process restart.
C35_ExcludedSetLoadedAtReaderStart ==
    [][/\ Len(readers') > Len(readers) => excluded_ips' = db_excluded
       /\ db_excluded' # db_excluded => excluded_ips' = excluded_ips
       /\ excluded_ips' # excluded_ips =>
             \/ Len(readers') > Len(readers)
             \/ main_pc = "refresh" /\ main_pc' = "reader"]_vars

\* a Reader is reading while the store differs from the set it filters with
C35_Witness ==
    /\ \E r \in 1..Len(readers) : readers[r].pc = "read"
    /\ excluded_ips # db_excluded
    /\ env.admin > 0

\* ------------------------------------------------------------ Readers: claims
\* the Readers that have been started and have not ended
ReadersAlive == {r \in 1..Len(readers) : readers[r].pc \notin {"dead", "killed"}}

\* C36: at most one Reader task is alive at any time: the supervisor never
\* starts a new Reader while a previously started Reader is still running,
\* including when it restarts the Reader as part of a sampling-process restart.
C36_AtMostOneReaderAlive == Cardinality(ReadersAlive) <= 1

\* ------------------------------------------------------ liveness marker: claims
\* the daemons that a stop command has signalled
Signalled == {cmd_target[q] : q \in {c \in Procs : cmd_pc[c] \in {"stop_wait", "done"}}} \ {NoPid}

\* C37: a daemon's shutdown cleanup removes only a liveness marker that names
\* that daemon itself: for any interleaving of one daemon shutting down (after
\* a stop command) and another daemon starting, cleanup_pid never deletes the
\* marker written by a different, still-live daemon instance.
C37_CleanupRemovesOwnMarkerOnly ==
    [][\A p \in Procs :
          (p \in Signalled /\ cmd_pc[p] = "cleanup_pid" /\ cmd_pc'[p] = "exited") =>
              ~(pid_file \in Procs \ {p} /\ ProcAlive(pid_file))]_vars

\* C38: DaemonManager.stop removes the liveness marker and returns True
\* (stopped) only when the signalled daemon process has exited: it never
\* reports success or clears the marker while that process is still alive.
C38_StopSucceedsOnlyAfterExit ==
    [][\A p \in Procs :
          (cmd_pc[p] = "stop_wait" /\ cmd_pc'[p] = "done") => ~ProcAlive(cmd_target[p])]_vars

\* the entries of the batch whose rows save_traffic has already inserted
SaveInserted == {app \in DOMAIN save_data : \A i \in 1..Len(save_todo) : save_todo[i] # app}

\* the number of rows a whole batch puts in the store
RECURSIVE BatchRowCount(_)
BatchRowCount(apps) ==
    IF apps = {} THEN 0
    ELSE LET app == CHOOSE a \in apps : TRUE
             e == save_data[app]
         IN  (IF e.sent = 0 /\ e.recv = 0 THEN 0
              ELSE IF e.ips = {} THEN 1 ELSE Cardinality(e.ips))
             + BatchRowCount(apps \ {app})

\* C39: save_traffic is all-or-nothing for a flushed batch: the store holds
\* either no row of the batch or every row of it, and a call left by a failed
\* insert or commit has stored no row: a partly persisted batch never shows.
C39_BatchAllOrNothing ==
    /\ save_pc = "raised" => db_traffic = <<>>
    /\ db_traffic # <<>> =>
          /\ save_pc = "done"
          /\ Len(db_traffic) = BatchRowCount(DOMAIN save_data)

\* an insert failed after the rows of an earlier entry of the batch, split
\* over two remote IPs, had been inserted
C39_Witness ==
    /\ save_pc = "raised"
    /\ Cardinality(DOMAIN save_data) = 2
    /\ Len(save_todo) = 1
    /\ \E app \in SaveInserted :
          save_data[app].sent > 0 /\ Cardinality(save_data[app].ips) = 2
    /\ db_traffic = <<>>

\* the sampling process of self._process has not exited
SamplerAlive == process \in {"running", "eof"}

\* C40: when the daemon exits through its shutdown path no sampling process it
\* started is alive: a process is spawned only in place of one that is not
\* alive, and the one held at the exit has exited, also when the termination
\* request arrives during the restart of the process (in the wait before the
\* spawn or right after it).
C40_NoSamplerLeftAtExit ==
    [][ /\ main_pc' = "exited" => ~SamplerAlive'
        /\ (main_pc \in {"start", "restart"} /\ process' = "running") => ~SamplerAlive
      ]_vars

\* the request arrived right after the spawn of the second process, which
\* stop() then ended; the daemon has exited
C40_Witness ==
    /\ main_pc = "exited"
    /\ sig_at = "refresh"
    /\ env.deaths = 1 /\ env.faults = 0
    /\ process = "exited"

====
